---- MODULE Spec2Model ----
(***************************************************************************)
(* Model of the scale subsystem of vdobler/facet.                          *)
(*                                                                         *)
(* Two generations of the Scale type live in the sources:                  *)
(*   - the Plot pipeline of facet.go (NewPlot, learnDataRange,             *)
(*     applyToScales, deDegenerateXandY, Range) works on the Scale with    *)
(*     an embedded Interval and the method autoscale;                      *)
(*   - scale.go / trans.go hold the Scale with Data/Limit/Range, a         *)
(*     Transformation and the method Autoscale.                            *)
(* Both are modelled; names follow the source (autoscale vs Autoscale).    *)
(*                                                                         *)
(* float64 values are modelled bit for bit: sign, mantissa of 53 bits and  *)
(* exponent, with NaN, +Inf, -Inf and -0, every operation rounded as       *)
(* IEEE-754 rounds it, and the functions of package math computed as the   *)
(* Go library computes them.                                               *)
(***************************************************************************)
EXTENDS Integers, Sequences, FiniteSets, TLC

\* ------------------------------------------------------------------------
\* Bounds of the model

MaxRows == 2
MaxCols == 2
MaxPanels == 4
MaxOps == 2
MaxRenders == 2
MaxScaleOps == 3
MaxArgs == 2
\* The ticks of a DiscreteTicks.Ticks call that are followed.
MaxTicks == 64

\* ------------------------------------------------------------------------
\* State

VARIABLES
    Rows, Cols,     \* Plot.Rows, Plot.Cols
    XScales,        \* Plot.XScales: column -> scale object
    YScales,        \* Plot.YScales: row -> scale object
    Scales,         \* Plot.Scales: aesthetic -> scale object
    scales,         \* the heap of Scale objects: identity -> fields
    Panels,         \* Plot.Panels[r][c].Geoms
    pc,             \* position inside Plot.Range
    calls,          \* the scales autoscale was invoked on in this Range, in order
    renders,        \* number of Range calls started
    ops,            \* number of user operations done
    sc,             \* a Scale of scale.go
    scLast,         \* the last operation on sc
    scOps,          \* number of configuration operations on sc
    iv,             \* an Interval that starts unset and is fed by Update
    fed,            \* the values passed to Update so far
    eq,             \* the operands and results of the last Interval.Equal calls
    res,            \* the arguments and results of the last call of a function
    bg              \* a BarGroups of package geom

\* ------------------------------------------------------------------------
\* float64

\* A float64 is the record [k, s, m, e]: the kind k ("num", "inf" or
\* "nan"), the sign bit s, and for a number its value m * 2^e with the
\* exponent e in MinExp .. MaxExp and the mantissa m of MantBits bits, held
\* as two limbs of LimbBits bits, the lower first. A normal number has the
\* top bit of m set; subnormal numbers and the two zeros have e = MinExp.
\* Every arithmetic operation gives the exact result rounded to the nearest
\* float64, ties to the even mantissa, as IEEE-754 demands it.
LimbBits == 28
Base == 2^LimbBits
HalfBits == LimbBits \div 2
HalfBase == 2^HalfBits
MantBits == 53
MinExp == -1074
MaxExp == 971

NoLimbs == <<0, 0>>
NaN == [k |-> "nan", s |-> 0, m |-> NoLimbs, e |-> 0]
PosInf == [k |-> "inf", s |-> 0, m |-> NoLimbs, e |-> 0]
NegInf == [k |-> "inf", s |-> 1, m |-> NoLimbs, e |-> 0]
Zero == [k |-> "num", s |-> 0, m |-> NoLimbs, e |-> MinExp]
NegZero == [k |-> "num", s |-> 1, m |-> NoLimbs, e |-> MinExp]

IsNaN(x) == x.k = "nan"
IsInf(x) == x.k = "inf"
IsNum(x) == x.k = "num"
IsZero(x) == x.k = "num" /\ x.m = NoLimbs
\* A number other than zero
IsValue(x) == x.k = "num" /\ x.m # NoLimbs
Inf(s) == IF s = 1 THEN NegInf ELSE PosInf
SignedZero(s) == IF s = 1 THEN NegZero ELSE Zero
Max2(a, b) == IF a >= b THEN a ELSE b
Min2(a, b) == IF a <= b THEN a ELSE b

\* A natural number beyond a mantissa is four limbs, the lowest first: they
\* hold the product of two mantissas and the two mantissas of a sum
\* aligned.
NoWide == <<0, 0, 0, 0>>
Widen(M) == <<M[1], M[2], 0, 0>>
Pow2Table ==
    <<1, 2, 4, 8, 16, 32, 64, 128, 256, 512, 1024, 2048, 4096, 8192, 16384,
      32768, 65536, 131072, 262144, 524288, 1048576, 2097152, 4194304,
      8388608, 16777216, 33554432, 67108864, 134217728, 268435456>>
Pow2(n) == Pow2Table[n + 1]
Limb(W, i) == IF i >= 1 /\ i <= 4 THEN W[i] ELSE 0
\* Constants of package math and of the functions below, each the float64
\* nearest to the decimal number given
\* 1
One == [k |-> "num", s |-> 0, m |-> <<0, 16777216>>, e |-> -52]
\* 2^53, the first whole number x with x + 1 not a float64
MaxWhole == [k |-> "num", s |-> 0, m |-> <<0, 16777216>>, e |-> 1]
\* 2
Two == [k |-> "num", s |-> 0, m |-> <<0, 16777216>>, e |-> -51]
\* 0.5
Half == [k |-> "num", s |-> 0, m |-> <<0, 16777216>>, e |-> -53]
\* 10
Ten == [k |-> "num", s |-> 0, m |-> <<0, 20971520>>, e |-> -49]
\* math.MaxFloat64 = 1.7976931348623157e308
MaxFloat64 == [k |-> "num", s |-> 0, m |-> <<268435455, 33554431>>, e |-> 971]
\* math.SmallestNonzeroFloat64 = 5e-324
SmallestNonzeroFloat64 == [k |-> "num", s |-> 0, m |-> <<1, 0>>, e |-> -1074]
\* 6.93147180369123816490e-01
Ln2Hi == [k |-> "num", s |-> 0, m |-> <<249561088, 23258159>>, e |-> -53]
\* 1.90821492927058770002e-10
Ln2Lo == [k |-> "num", s |-> 0, m |-> <<91831414, 27500275>>, e |-> -85]
\* 6.666666666666735130e-01
L1 == [k |-> "num", s |-> 0, m |-> <<89478547, 22369621>>, e |-> -53]
\* 3.999999999940941908e-01
L2 == [k |-> "num", s |-> 0, m |-> <<160954884, 26843545>>, e |-> -54]
\* 2.857142874366239149e-01
L3 == [k |-> "num", s |-> 0, m |-> <<69374809, 19173961>>, e |-> -54]
\* 2.222219843214978396e-01
L4 == [k |-> "num", s |-> 0, m |-> <<227440815, 29826129>>, e |-> -55]
\* 1.818357216161805012e-01
L5 == [k |-> "num", s |-> 0, m |-> <<113968094, 24405577>>, e |-> -55]
\* 1.531383769920937332e-01
L6 == [k |-> "num", s |-> 0, m |-> <<7915167, 20553885>>, e |-> -55]
\* 1.479819860511658591e-01
L7 == [k |-> "num", s |-> 0, m |-> <<255742532, 19861805>>, e |-> -55]
\* math.Sqrt2 / 2 = 0.7071067811865476
HalfSqrt2 == [k |-> "num", s |-> 0, m |-> <<109001677, 23726566>>, e |-> -53]
\* 1 / math.Ln2 = 1.4426950408889634
InvLn2 == [k |-> "num", s |-> 0, m |-> <<86737662, 24204406>>, e |-> -52]
\* math.Ln2 / math.Ln10 = 0.3010299956639812
Ln2ByLn10 == [k |-> "num", s |-> 0, m |-> <<10451455, 20201781>>, e |-> -54]
\* 1.44269504088896338700e+00
Log2e == [k |-> "num", s |-> 0, m |-> <<86737662, 24204406>>, e |-> -52]
\* 7.09782712893383973096e+02
ExpOverflow == [k |-> "num", s |-> 0, m |-> <<251279855, 23258159>>, e |-> -43]
\* -7.45133219101941108420e+02
ExpUnderflow == [k |-> "num", s |-> 1, m |-> <<86847569, 24416525>>, e |-> -43]
\* 1.0 / (1 << 28)
NearZero == [k |-> "num", s |-> 0, m |-> <<0, 16777216>>, e |-> -80]
\* 1.66666666666666657415e-01
P1 == [k |-> "num", s |-> 0, m |-> <<89478485, 22369621>>, e |-> -55]
\* -2.77777777770155933842e-03
P2 == [k |-> "num", s |-> 1, m |-> <<113163667, 23860929>>, e |-> -61]
\* 6.61375632143793436117e-05
P3 == [k |-> "num", s |-> 0, m |-> <<254139948, 18179754>>, e |-> -66]
\* -1.65339022054652515390e-06
P4 == [k |-> "num", s |-> 1, m |-> <<97676273, 29086748>>, e |-> -72]
\* 4.13813679705723846039e-08
P5 == [k |-> "num", s |-> 0, m |-> <<46048464, 23295639>>, e |-> -77]
\* -1
NegOne == [k |-> "num", s |-> 1, m |-> <<0, 16777216>>, e |-> -52]
\* 0.05
Twentieth == [k |-> "num", s |-> 0, m |-> <<161061274, 26843545>>, e |-> -57]

\* The operations of this module call one another at many places. Those
\* listed in Eval are applied through it: X(a, b) is Eval(<<"X", a, b>>),
\* and XOf is the definition of the operation X.
RECURSIVE Eval(_)

\* The number of bits of a limb x, and of the limbs W.
BitsOf(x) == CHOOSE n \in 0 .. LimbBits : x < Pow2(n) /\ (n = 0 \/ x >= Pow2(n - 1))
BitLen(W) == Eval(<<"BitLen", W>>)
BitLenOf(W) ==
    IF W[4] # 0 THEN 3 * LimbBits + BitsOf(W[4])
    ELSE IF W[3] # 0 THEN 2 * LimbBits + BitsOf(W[3])
    ELSE IF W[2] # 0 THEN LimbBits + BitsOf(W[2])
    ELSE BitsOf(W[1])
\* The number of bits of a mantissa M.
MantLen(M) == IF M[2] # 0 THEN LimbBits + BitsOf(M[2]) ELSE BitsOf(M[1])

\* W \div 2^r: limb i of W \div 2^(LimbBits * q + b)
ShrLimb(W, q, b, i) ==
    (Limb(W, i + q) \div Pow2(b)) + (Limb(W, i + q + 1) % Pow2(b)) * Pow2(LimbBits - b)
ShrBy(W, q, b) ==
    <<ShrLimb(W, q, b, 1), ShrLimb(W, q, b, 2), ShrLimb(W, q, b, 3), ShrLimb(W, q, b, 4)>>
Shr(W, r) == Eval(<<"Shr", W, r>>)
ShrOf(W, r) == ShrBy(W, r \div LimbBits, r % LimbBits)
\* W * 2^r: limb i of W * 2^(LimbBits * q + b)
ShlLimb(W, q, b, i) ==
    (Limb(W, i - q) % Pow2(LimbBits - b)) * Pow2(b) + (Limb(W, i - q - 1) \div Pow2(LimbBits - b))
ShlBy(W, q, b) ==
    <<ShlLimb(W, q, b, 1), ShlLimb(W, q, b, 2), ShlLimb(W, q, b, 3), ShlLimb(W, q, b, 4)>>
Shl(W, r) == Eval(<<"Shl", W, r>>)
ShlOf(W, r) == ShlBy(W, r \div LimbBits, r % LimbBits)
\* Bit r of W, and whether a bit below bit r is set.
Bit(W, r) == (Limb(W, (r \div LimbBits) + 1) \div Pow2(r % LimbBits)) % 2
LowBits(W, r) ==
    r > 0 /\ (\/ \E i \in 1 .. (r \div LimbBits) : Limb(W, i) # 0
              \/ Limb(W, (r \div LimbBits) + 1) % Pow2(r % LimbBits) # 0)

\* A + B: limb i takes a carry when a limb below it overflows and every
\* limb between the two is full.
CarryInto(A, B, i) ==
    \E j \in 1 .. (i - 1) :
        /\ A[j] + B[j] >= Base
        /\ \A k \in (j + 1) .. (i - 1) : A[k] + B[k] = Base - 1
AddLimb(A, B, i) == (A[i] + B[i] + (IF CarryInto(A, B, i) THEN 1 ELSE 0)) % Base
BigAdd(A, B) == Eval(<<"BigAdd", A, B>>)
BigAddOf(A, B) == <<AddLimb(A, B, 1), AddLimb(A, B, 2), AddLimb(A, B, 3), AddLimb(A, B, 4)>>
\* A - B for A >= B: limb i gives a borrow when a limb below it is short
\* and every limb between the two is even.
BorrowFrom(A, B, i) ==
    \E j \in 1 .. (i - 1) :
        /\ A[j] < B[j]
        /\ \A k \in (j + 1) .. (i - 1) : A[k] = B[k]
SubLimb(A, B, i) == (A[i] - B[i] - (IF BorrowFrom(A, B, i) THEN 1 ELSE 0)) % Base
BigSub(A, B) == Eval(<<"BigSub", A, B>>)
BigSubOf(A, B) == <<SubLimb(A, B, 1), SubLimb(A, B, 2), SubLimb(A, B, 3), SubLimb(A, B, 4)>>
\* A < B: the top limb in which they differ decides.
Less(A, B) == \E t \in 1 .. 4 : A[t] < B[t] /\ \A i \in (t + 1) .. 4 : A[i] = B[i]
\* A * B for two mantissas. A limb is two pieces of HalfBits bits; column k
\* is the sum of the products of the pieces that weigh HalfBase^(k - 1),
\* and limb j of the product collects the columns 2j - 1 and 2j and what
\* the limbs and columns below it carry in c. PA is the pieces of A, PB
\* those of B between four zeros on either side.
Pieces(M) == <<M[1] % HalfBase, M[1] \div HalfBase, M[2] % HalfBase, M[2] \div HalfBase>>
Padded(M) ==
    <<0, 0, 0, 0, M[1] % HalfBase, M[1] \div HalfBase, M[2] % HalfBase, M[2] \div HalfBase,
      0, 0, 0, 0>>
Col(PA, PB, k) ==
    PA[1] * PB[k + 4] + PA[2] * PB[k + 3] + PA[3] * PB[k + 2] + PA[4] * PB[k + 1]
RECURSIVE MulLimbs(_, _, _, _)
MulCarry(PA, PB, j, t) == <<t % Base>> \o MulLimbs(PA, PB, j + 1, t \div Base)
MulLimbs(PA, PB, j, c) ==
    IF j > 4 THEN <<>>
    ELSE MulCarry(PA, PB, j,
                  c + (Col(PA, PB, 2 * j - 2) \div HalfBase) + Col(PA, PB, 2 * j - 1)
                  + (Col(PA, PB, 2 * j) % HalfBase) * HalfBase)
BigMul(A, B) == Eval(<<"BigMul", A, B>>)
BigMulOf(A, B) == MulLimbs(Pieces(A), Padded(B), 1, 0)

\* The float64 with the sign s and the mantissa M at the exponent e.
Finite(s, M, e) ==
    IF e > MaxExp THEN Inf(s)
    ELSE IF M = NoWide THEN SignedZero(s)
    ELSE [k |-> "num", s |-> s, m |-> <<M[1], M[2]>>, e |-> e]
\* A mantissa that rounding up has carried to 2^MantBits.
Carry(s, M, e) ==
    IF Bit(M, MantBits) = 1 THEN Finite(s, Shr(M, 1), e + 1) ELSE Finite(s, M, e)
\* The float64 nearest to (W + f) * 2^e, where W > 0, 0 <= f < 1, and f > 0
\* when sticky: W loses its r lowest bits, with r the bits beyond MantBits
\* or those below MinExp; the result is rounded up when the lost part is
\* more than half a unit, or is half a unit and the kept part is odd.
PackShift(s, W, e, sticky, r) ==
    IF r <= 0 THEN Finite(s, Shl(W, -r), e + r)
    ELSE IF Bit(W, r - 1) = 1 /\ (sticky \/ LowBits(W, r - 1) \/ Bit(W, r) = 1)
         THEN Carry(s, BigAdd(Shr(W, r), <<1, 0, 0, 0>>), e + r)
    ELSE Finite(s, Shr(W, r), e + r)
Pack(s, W, e, sticky) == Eval(<<"Pack", s, W, e, sticky>>)
PackOf(s, W, e, sticky) ==
    IF W = NoWide THEN SignedZero(s)
    ELSE PackShift(s, W, e, sticky, Max2(BitLen(W) - MantBits, MinExp - e))

\* float64(n) for an integer n
R(n) == Eval(<<"R", n>>)
ROf(n) ==
    IF n < 0 THEN Pack(1, <<(-n) % Base, (-n) \div Base, 0, 0>>, 0, FALSE)
    ELSE Pack(0, <<n % Base, n \div Base, 0, 0>>, 0, FALSE)

\* Whether the magnitude of a is below that of b, for two floats that are
\* not NaN.
ExpKey(x) == IF x.k = "inf" THEN MaxExp + 1 ELSE x.e
MagLess(a, b) ==
    \/ ExpKey(a) < ExpKey(b)
    \/ ExpKey(a) = ExpKey(b) /\ (a.m[2] < b.m[2] \/ (a.m[2] = b.m[2] /\ a.m[1] < b.m[1]))
\* a < b on float64: false when either side is NaN; -0 is not less than 0.
FLt(a, b) ==
    IF a.k = "nan" \/ b.k = "nan" THEN FALSE
    ELSE IF IsZero(a) /\ IsZero(b) THEN FALSE
    ELSE IF a.s # b.s THEN a.s = 1
    ELSE IF a.s = 0 THEN MagLess(a, b)
    ELSE MagLess(b, a)
FGt(a, b) == FLt(b, a)
\* a == b on float64: NaN is not equal to anything, and -0 == 0.
FEq(a, b) == a.k # "nan" /\ b.k # "nan" /\ (a = b \/ (IsZero(a) /\ IsZero(b)))
FLe(a, b) == FLt(a, b) \/ FEq(a, b)
FGe(a, b) == FLe(b, a)

FNeg(a) == IF a.k = "nan" THEN NaN ELSE [a EXCEPT !.s = 1 - a.s]
FAbs(a) == IF a.k = "nan" THEN NaN ELSE [a EXCEPT !.s = 0]

\* a + b for the number a of sign sa and the number b of sign sb, neither
\* zero, with a.e >= b.e: the exact sum, rounded. A number b below a
\* quarter of the last bit of a does not change a.
AddAligned(sa, A, sb, B, e) ==
    IF sa = sb THEN Pack(sa, BigAdd(A, B), e, FALSE)
    ELSE IF A = B THEN Zero
    ELSE IF Less(B, A) THEN Pack(sa, BigSub(A, B), e, FALSE)
    ELSE Pack(sb, BigSub(B, A), e, FALSE)
AddNum(sa, a, sb, b) ==
    IF a.e - b.e > MantBits + 2 THEN [a EXCEPT !.s = sa]
    ELSE AddAligned(sa, Shl(Widen(a.m), a.e - b.e), sb, Widen(b.m), b.e)
\* a + b when one of them is NaN, infinite or zero
AddSpecial(a, b) ==
    IF a.k = "nan" \/ b.k = "nan" THEN NaN
    ELSE IF a.k = "inf" /\ b.k = "inf" THEN (IF a.s = b.s THEN a ELSE NaN)
    ELSE IF a.k = "inf" THEN a
    ELSE IF b.k = "inf" THEN b
    ELSE IF IsZero(a) /\ IsZero(b) THEN (IF a.s = 1 /\ b.s = 1 THEN NegZero ELSE Zero)
    ELSE IF IsZero(a) THEN b
    ELSE a
FAdd(a, b) == Eval(<<"FAdd", a, b>>)
FAddOf(a, b) ==
    IF a.k # "num" \/ b.k # "num" \/ a.m = NoLimbs \/ b.m = NoLimbs THEN AddSpecial(a, b)
    ELSE IF a.e >= b.e THEN AddNum(a.s, a, b.s, b)
    ELSE AddNum(b.s, b, a.s, a)
FSub(a, b) == Eval(<<"FSub", a, b>>)
FSubOf(a, b) ==
    IF a.k # "num" \/ b.k # "num" \/ a.m = NoLimbs \/ b.m = NoLimbs THEN AddSpecial(a, FNeg(b))
    ELSE IF a.e >= b.e THEN AddNum(a.s, a, 1 - b.s, b)
    ELSE AddNum(1 - b.s, b, a.s, a)

\* a * b: the exact product of the mantissas, rounded.
MulSpecial(a, b) ==
    IF a.k = "nan" \/ b.k = "nan" THEN NaN
    ELSE IF a.k = "inf" \/ b.k = "inf"
         THEN (IF IsZero(a) \/ IsZero(b) THEN NaN ELSE Inf((a.s + b.s) % 2))
    ELSE SignedZero((a.s + b.s) % 2)
FMul(a, b) == Eval(<<"FMul", a, b>>)
FMulOf(a, b) ==
    IF a.k # "num" \/ b.k # "num" \/ a.m = NoLimbs \/ b.m = NoLimbs THEN MulSpecial(a, b)
    ELSE Pack((a.s + b.s) % 2, BigMul(a.m, b.m), a.e + b.e, FALSE)

\* Long division of the four limbs U by a divisor D of two limbs with its
\* top bit set, where the upper half of U is below 2 * D. The division is
\* the sequence st of the two limbs of the remainder and, after them, the
\* pieces of the quotient found so far, the lowest first. The first piece
\* is 1 when the upper half of U holds D; a step brings the next piece p
\* of U down to the remainder, which gives x, and takes the greatest piece
\* q with q * D <= x, which is at most two below the estimate qh from the
\* top pieces of the remainder and of D.
PieceOf(U, p) == IF p % 2 = 1 THEN U[(p + 1) \div 2] % HalfBase ELSE U[p \div 2] \div HalfBase
\* q * D: its three limbs, and what the limbs below carry into them
MulLow(D, q) == (D[1] % HalfBase) * q + (((D[1] \div HalfBase) * q) % HalfBase) * HalfBase
MulMid(D, q) ==
    (MulLow(D, q) \div Base) + (((D[1] \div HalfBase) * q) \div HalfBase)
    + (D[2] % HalfBase) * q + (((D[2] \div HalfBase) * q) % HalfBase) * HalfBase
MulTop(D, q) == (MulMid(D, q) \div Base) + (((D[2] \div HalfBase) * q) \div HalfBase)
MulPiece(D, q) == <<MulLow(D, q) % Base, MulMid(D, q) % Base, MulTop(D, q)>>
\* x >= M for three limbs each, and the two limbs of x - M then
Holds(x, M) ==
    x[3] > M[3] \/ (x[3] = M[3] /\ (x[2] > M[2] \/ (x[2] = M[2] /\ x[1] >= M[1])))
Minus(x, M) ==
    <<(x[1] - M[1]) % Base, (x[2] - M[2] - (IF x[1] < M[1] THEN 1 ELSE 0)) % Base>>
DivOut(D, st, x, q) ==
    IF q = 0 THEN <<x[1], x[2], 0>> \o SubSeq(st, 3, Len(st))
    ELSE Minus(x, MulPiece(D, q)) \o <<q>> \o SubSeq(st, 3, Len(st))
DivTry(D, st, x, qh) ==
    DivOut(D, st, x,
           CHOOSE q \in Max2(qh - 2, 0) .. qh :
               Holds(x, MulPiece(D, q)) /\ ~Holds(x, MulPiece(D, q + 1)))
DivStep(D, st, p) ==
    DivTry(D, st,
           <<(st[1] % HalfBase) * HalfBase + p,
             (st[2] % HalfBase) * HalfBase + (st[1] \div HalfBase),
             st[2] \div HalfBase>>,
           Min2(st[2] \div (D[2] \div HalfBase), HalfBase - 1))
RECURSIVE DivLoop(_, _, _)
DivLoop(U, D, st) ==
    IF Len(st) = 7 THEN st ELSE DivLoop(U, D, DivStep(D, st, PieceOf(U, 7 - Len(st))))
BigDiv(U, D) == Eval(<<"BigDiv", U, D>>)
BigDivOf(U, D) ==
    IF U[4] > D[2] \/ (U[4] = D[2] /\ U[3] >= D[1])
    THEN DivLoop(U, D, Minus(<<U[3], U[4], 0>>, <<D[1], D[2], 0>>) \o <<1>>)
    ELSE DivLoop(U, D, <<U[3], U[4], 0>>)
\* The quotient of a division st, and whether it has a remainder.
Quotient(st) == <<st[3] + st[4] * HalfBase, st[5] + st[6] * HalfBase, st[7], 0>>
Inexact(st) == st[1] # 0 \/ st[2] # 0
\* The mantissa M of a number other than zero with its top bit at bit
\* n - 1.
Stretch(M, n) == SubSeq(Shl(Widen(M), n - MantLen(M)), 1, 2)
\* a / b: the mantissa of a with WideBits more bits divided by that of b,
\* both shifted to WideBits bits, rounded; what is left of the division
\* decides a tie.
WideBits == MantBits + 3
DivPack(s, st, e) == Pack(s, Quotient(st), e, Inexact(st))
DivNum(a, b) ==
    DivPack((a.s + b.s) % 2, BigDiv(NoLimbs \o Stretch(a.m, WideBits), Stretch(b.m, WideBits)),
            (a.e + MantLen(a.m)) - (b.e + MantLen(b.m)) - WideBits)
DivSpecial(a, b) ==
    IF a.k = "nan" \/ b.k = "nan" THEN NaN
    ELSE IF a.k = "inf" THEN (IF b.k = "inf" THEN NaN ELSE Inf((a.s + b.s) % 2))
    ELSE IF b.k = "inf" THEN SignedZero((a.s + b.s) % 2)
    ELSE IF IsZero(b) THEN (IF IsZero(a) THEN NaN ELSE Inf((a.s + b.s) % 2))
    ELSE SignedZero((a.s + b.s) % 2)
FDiv(a, b) == Eval(<<"FDiv", a, b>>)
FDivOf(a, b) ==
    IF a.k # "num" \/ b.k # "num" \/ a.m = NoLimbs \/ b.m = NoLimbs THEN DivSpecial(a, b)
    ELSE DivNum(a, b)

\* math.Sqrt: the whole root of the mantissa W, shifted to 2 * RootBits bits
\* or one less, rounded. The root is the limit of x -> (x + W div x) div 2
\* from a start above it; the sequence falls until it is reached. The start
\* is taken from the root of the top limb of W, found in the same way.
RootBits == MantBits + 1
RECURSIVE IntRoot(_, _)
IntRoot(t, x) ==
    IF (x + t \div x) \div 2 >= x THEN x ELSE IntRoot(t, (x + t \div x) \div 2)
RootStart(W) == <<Base - 1, (IntRoot(Shr(W, 2 * RootBits - LimbBits)[1], HalfBase) + 1) * 4096 - 1>>
RootNext(W, x) ==
    SubSeq(Shr(BigAdd(Widen(x), Quotient(BigDiv(Shl(W, 2), SubSeq(Shl(Widen(x), 2), 1, 2)))), 1),
           1, 2)
RECURSIVE RootLoop(_, _, _)
RootLoop(W, x, y) ==
    IF y[2] > x[2] \/ (y[2] = x[2] /\ y[1] >= x[1]) THEN x
    ELSE RootLoop(W, y, RootNext(W, y))
RootFrom(W, x) == RootLoop(W, x, RootNext(W, x))
RootPack(W, x, e) == Pack(0, Widen(x), e, BigMul(x, x) # W)
SqrtNum(W, e) == RootPack(W, RootFrom(W, RootStart(W)), e)
FSqrt(a) == Eval(<<"FSqrt", a>>)
FSqrtOf(a) ==
    IF a.k = "nan" THEN NaN
    ELSE IF IsZero(a) THEN a
    ELSE IF a.s = 1 THEN NaN
    ELSE IF a.k = "inf" THEN PosInf
    ELSE SqrtNum(Shl(Widen(a.m), 2 * RootBits - MantLen(a.m) - ((a.e + MantLen(a.m)) % 2)),
                 (a.e - (2 * RootBits - MantLen(a.m) - ((a.e + MantLen(a.m)) % 2))) \div 2)

\* The integer value of a sequence of limbs below 2^31.
LimbsToInt(W) == W[1] + Base * W[2]
\* The whole part of the magnitude of a number x, as limbs.
WholeLimbs(x) == IF x.e >= 0 THEN Shl(Widen(x.m), x.e) ELSE Shr(Widen(x.m), -x.e)
\* The conversion int(x) of Go for a number x of magnitude below 2^31: x
\* without its fraction.
ToInt(x) == IF x.s = 1 THEN -LimbsToInt(WholeLimbs(x)) ELSE LimbsToInt(WholeLimbs(x))

\* fmt.Sprintf("%d", int(x)) for a whole number x of magnitude below 2^63.
\* The decimal digits are formed in groups of four, the lowest group first:
\* TimesPlus(D, m, a) is D * m + a for m and a up to HalfBase.
GroupBase == 10000
Groups == 9
RECURSIVE TimesPlusFrom(_, _, _, _)
TimesPlusFrom(D, m, a, i) ==
    IF i > Groups THEN <<>>
    ELSE <<(D[i] * m + a) % GroupBase>>
             \o TimesPlusFrom(D, m, (D[i] * m + a) \div GroupBase, i + 1)
TimesPlus(D, m, a) == TimesPlusFrom(D, m, a, 1)
RECURSIVE DecimalGroups(_, _)
DecimalGroups(W, l) ==
    IF l > Len(W) THEN [i \in 1 .. Groups |-> 0]
    ELSE TimesPlus(TimesPlus(DecimalGroups(W, l + 1), HalfBase, W[l] \div HalfBase),
                   HalfBase, W[l] % HalfBase)
FourDigits(n) ==
    IF n < 10 THEN "000" \o ToString(n)
    ELSE IF n < 100 THEN "00" \o ToString(n)
    ELSE IF n < 1000 THEN "0" \o ToString(n)
    ELSE ToString(n)
RECURSIVE GroupDigits(_, _)
GroupDigits(D, i) == IF i = 0 THEN "" ELSE FourDigits(D[i]) \o GroupDigits(D, i - 1)
TopGroup(D) == CHOOSE t \in 1 .. Groups :
                   /\ t = 1 \/ D[t] # 0
                   /\ \A i \in t + 1 .. Groups : D[i] = 0
Decimal(D) == ToString(D[TopGroup(D)]) \o GroupDigits(D, TopGroup(D) - 1)
FormatInt(x) == Eval(<<"FormatInt", x>>)
FormatIntOf(x) ==
    IF x.s = 1 /\ WholeLimbs(x) # NoWide THEN "-" \o Decimal(DecimalGroups(WholeLimbs(x), 1))
    ELSE Decimal(DecimalGroups(WholeLimbs(x), 1))

\* math.Frexp of a number x other than zero: x = frac * 2^exp with frac in
\* [1/2, 1).
FrexpFrac(x) == [k |-> "num", s |-> x.s, m |-> Stretch(x.m, MantBits), e |-> -MantBits]
FrexpExp(x) == x.e + MantLen(x.m)
\* math.Ldexp: x * 2^n
Ldexp(x, n) == Eval(<<"Ldexp", x, n>>)
LdexpOf(x, n) == IF ~IsNum(x) \/ IsZero(x) THEN x ELSE Pack(x.s, Widen(x.m), x.e + n, FALSE)
\* math.Modf of a number y >= 0: its whole part and its fraction.
ModfInt(y) ==
    IF y.e >= 0 THEN y
    ELSE IF y.e <= -MantBits THEN Zero
    ELSE Pack(0, Shr(Widen(y.m), -y.e), 0, FALSE)
ModfFrac(y) == FSub(y, ModfInt(y))
\* math.Floor: NaN, an infinity and a zero are returned as they are; below
\* zero the whole part d of -x, one more if -x has a fraction, negated.
Floor(x) == Eval(<<"Floor", x>>)
FloorOf(x) ==
    IF x.k # "num" \/ IsZero(x) THEN x
    ELSE IF x.s = 1
         THEN FNeg(IF IsZero(ModfFrac(FNeg(x))) THEN ModfInt(FNeg(x))
                   ELSE FAdd(ModfInt(FNeg(x)), One))
    ELSE ModfInt(x)
\* math.Ceil(x) = -Floor(-x)
Ceil(x) == Eval(<<"Ceil", x>>)
CeilOf(x) == FNeg(Floor(FNeg(x)))

\* math.Log, as the Go library computes it: x = 2^k * (1 + f) with
\* sqrt(2)/2 < 1 + f < sqrt(2), s = f / (2 + f), and
\* log(1 + f) = f - (hfsq - s * (hfsq + rem)) with hfsq = f*f/2 and rem the
\* sum of a polynomial t1 in the odd and one t2 in the even powers of s*s.
\* There is one definition for each assignment of the function, taken in
\* the order of the code; a NaN stays one through the sums and products
\* that follow it.
LogSum(f, k, hfsq, v) ==
    IF IsNaN(v) THEN NaN
    ELSE FSub(FMul(k, Ln2Hi), FSub(FSub(hfsq, v), f))
LogHalfSquare(f, k, s, rem, hfsq) ==
    IF IsNaN(hfsq) \/ IsNaN(rem) THEN NaN
    ELSE LogSum(f, k, hfsq, FAdd(FMul(s, FAdd(hfsq, rem)), FMul(k, Ln2Lo)))
LogEven(f, k, s, t1, t2) ==
    IF IsNaN(t2) THEN NaN
    ELSE LogHalfSquare(f, k, s, FAdd(t1, t2), FMul(FMul(Half, f), f))
LogOdd(f, k, s, s4, t1) ==
    IF IsNaN(t1) THEN NaN
    ELSE LogEven(f, k, s, t1, FMul(s4, FAdd(L2, FMul(s4, FAdd(L4, FMul(s4, L6))))))
LogOddTop(f, k, s, s2, s4, u) ==
    IF IsNaN(u) THEN NaN
    ELSE LogOdd(f, k, s, s4, FMul(s2, FAdd(L1, FMul(s4, FAdd(L3, u)))))
LogFourth(f, k, s, s2, s4) ==
    IF IsNaN(s4) THEN NaN
    ELSE LogOddTop(f, k, s, s2, s4, FMul(s4, FAdd(L5, FMul(s4, L7))))
LogSquares(f, k, s, s2) ==
    IF IsNaN(s2) THEN NaN ELSE LogFourth(f, k, s, s2, FMul(s2, s2))
LogQuot(f, k, s) ==
    IF IsNaN(s) THEN NaN ELSE LogSquares(f, k, s, FMul(s, s))
LogReduced(f, k) ==
    IF IsNaN(f) THEN NaN ELSE LogQuot(f, k, FDiv(f, FAdd(Two, f)))
LogFrexp(f1, ki) ==
    IF FLt(f1, HalfSqrt2) THEN LogReduced(FSub(FMul(f1, Two), One), R(ki - 1))
    ELSE LogReduced(FSub(f1, One), R(ki))
FLog(x) == Eval(<<"FLog", x>>)
FLogOf(x) ==
    IF x.k = "nan" \/ x = PosInf THEN x
    ELSE IF IsZero(x) THEN NegInf
    ELSE IF x.s = 1 THEN NaN
    ELSE LogFrexp(FrexpFrac(x), FrexpExp(x))
\* math.Log2: Frexp returns x itself and the exponent 0 for 0, Inf and NaN.
Log2Sum(lg, exp) ==
    IF IsNaN(lg) THEN NaN ELSE FAdd(FMul(lg, InvLn2), R(exp))
FLog2(x) == Eval(<<"FLog2", x>>)
FLog2Of(x) ==
    IF x.k # "num" \/ x.m = NoLimbs THEN Log2Sum(FLog(x), 0)
    ELSE IF FrexpFrac(x) = Half THEN R(FrexpExp(x) - 1)
    ELSE Log2Sum(FLog(FrexpFrac(x)), FrexpExp(x))
\* math.Log10
FLog10(x) == Eval(<<"FLog10", x>>)
FLog10Of(x) == FMul(FLog2(x), Ln2ByLn10)

\* math.Exp, as the Go library computes it: x = k * ln(2) + r with
\* |r| <= ln(2)/2, r = hi - lo, and e^r from a rational approximation.
ExpSum(hi, lo, k, q) ==
    IF IsNaN(q) THEN NaN
    ELSE Ldexp(FSub(One, FSub(FSub(lo, q), hi)), k)
ExpMulti(hi, lo, k, r, c) ==
    IF IsNaN(c) THEN NaN
    ELSE ExpSum(hi, lo, k, FDiv(FMul(r, c), FSub(Two, c)))
ExpPolyTop(hi, lo, k, r, t, u) ==
    IF IsNaN(u) THEN NaN
    ELSE ExpMulti(hi, lo, k, r, FSub(r, FMul(t, FAdd(P1, FMul(t, FAdd(P2, u))))))
ExpPoly(hi, lo, k, r, t) ==
    IF IsNaN(t) THEN NaN
    ELSE ExpPolyTop(hi, lo, k, r, t, FMul(t, FAdd(P3, FMul(t, FAdd(P4, FMul(t, P5))))))
ExpDiff(hi, lo, k, r) ==
    IF IsNaN(r) THEN NaN ELSE ExpPoly(hi, lo, k, r, FMul(r, r))
ExpParts(hi, lo, k) ==
    IF IsNaN(hi) THEN NaN ELSE ExpDiff(hi, lo, k, FSub(hi, lo))
ExpReduce(x, k) == ExpParts(FSub(x, FMul(R(k), Ln2Hi)), FMul(R(k), Ln2Lo), k)
FExp(x) == Eval(<<"FExp", x>>)
FExpOf(x) ==
    IF x.k = "nan" \/ x = PosInf THEN x
    ELSE IF x = NegInf THEN Zero
    ELSE IF FGt(x, ExpOverflow) THEN PosInf
    ELSE IF FLt(x, ExpUnderflow) THEN Zero
    ELSE IF FLt(FNeg(NearZero), x) /\ FLt(x, NearZero) THEN FAdd(One, x)
    ELSE IF FLt(x, Zero) THEN ExpReduce(x, ToInt(FSub(FMul(Log2e, x), Half)))
    ELSE ExpReduce(x, ToInt(FAdd(FMul(Log2e, x), Half)))

\* math.Pow(x, y), as the Go library computes it (pow.go): after the
\* special cases of the switch,
\* x^y = x^yi * x^yf for the whole part yi and the fraction yf of |y|; x^yf
\* is Exp(yf * Log(x)) and x^yi is formed by repeated squaring of the
\* fraction x1 of x = x1 * 2^xe. ans is the pair of the product a1 and the
\* sum ae of the exponents so far, I the bits of yi that are still to come.
\* PowPass is one pass of the loop "for i := int64(yi); i != 0; i >>= 1";
\* the loop is over when no bit is left (after the break as well), and a
\* pass leaves a finished loop as it is. A product that is infinite or not
\* a number stays so in every further pass, whatever ae becomes.
PowPass(st) == Eval(<<"PowPass", st>>)
PowPassOf(st) ==
    LET ans == st[1]
        x1 == st[2]
        xe == st[3]
        I == st[4]
        a1 == IF Bit(I, 0) = 1 THEN FMul(ans[1], x1) ELSE ans[1]
        ae == IF Bit(I, 0) = 1 THEN ans[2] + xe ELSE ans[2]
        sq == FMul(x1, x1)
    IN  IF I = NoWide \/ ans[1].k # "num" THEN <<ans, x1, xe, NoWide>>
        ELSE IF xe < -4096 \/ 4096 < xe THEN <<<<ans[1], ans[2] + xe>>, x1, xe, NoWide>>
        ELSE IF FLt(sq, Half) THEN <<<<a1, ae>>, FAdd(sq, sq), 2 * xe - 1, Shr(I, 1)>>
        ELSE <<<<a1, ae>>, sq, 2 * xe, Shr(I, 1)>>
\* The loop, four passes in a step.
RECURSIVE PowLoop(_)
PowLoop(st) ==
    IF st[4] = NoWide THEN st[1]
    ELSE PowLoop(PowPass(PowPass(PowPass(PowPass(st)))))
PowResult(y, ans) ==
    IF y.s = 1 THEN Ldexp(FDiv(One, ans[1]), -ans[2]) ELSE Ldexp(ans[1], ans[2])
PowStart(x, y, a1, yi) ==
    IF IsNaN(a1) THEN NaN
    ELSE PowResult(y, PowLoop(<<<<a1, 0>>, FrexpFrac(x), FrexpExp(x), WholeLimbs(yi)>>))
PowParts(x, y, yi, yf) ==
    IF IsZero(yf) THEN PowStart(x, y, One, yi)
    ELSE IF FGt(yf, Half)
         THEN PowStart(x, y, FExp(FMul(FSub(yf, One), FLog(x))), FAdd(yi, One))
    ELSE PowStart(x, y, FExp(FMul(yf, FLog(x))), yi)
\* isOddInt of pow.go: y is a whole odd number (of magnitude below 2^53).
isOddInt(y) ==
    /\ IsValue(y) /\ y.e <= 0 /\ y.e > -MantBits
    /\ IsZero(ModfFrac(FAbs(y)))
    /\ Bit(WholeLimbs(y), 0) = 1
\* case x == 0: the sign of the zero counts for an odd whole y.
PowOfZero(x, y) ==
    IF y.s = 1 THEN (IF x.s = 1 /\ isOddInt(y) THEN NegInf ELSE PosInf)
    ELSE IF x.s = 1 /\ isOddInt(y) THEN x
    ELSE Zero
\* case IsInf(y, 0)
PowToInf(x, y) ==
    IF x = NegOne THEN One
    ELSE IF FLt(FAbs(x), One) = (y.s = 0) THEN Zero
    ELSE PosInf
\* case IsInf(x, 0): for -Inf it is Pow(1/x, -y), where 1/x is -0 and the
\* call ends in the case x == 0 (for -y == 1 in the case y == 1, which
\* returns the same -0).
PowOfInf(x, y) ==
    IF x.s = 1 THEN PowOfZero(NegZero, FNeg(y))
    ELSE IF y.s = 1 THEN Zero
    ELSE PosInf
\* yi >= 1<<63: overflow or underflow for every x but -1
PowHuge(x, y) ==
    IF x = NegOne THEN One
    ELSE IF FLt(FAbs(x), One) = (y.s = 0) THEN Zero
    ELSE PosInf
\* After the switch: yi, yf := Modf(Abs(y))
PowFinite(x, y, yi, yf) ==
    IF ~IsZero(yf) /\ x.s = 1 THEN NaN
    ELSE IF yi.e > 63 - MantBits THEN PowHuge(x, y)
    ELSE PowParts(x, y, yi, yf)
FPow(x, y) == Eval(<<"FPow", x, y>>)
FPowOf(x, y) ==
    IF IsZero(y) \/ x = One THEN One
    ELSE IF y = One THEN x
    ELSE IF IsNaN(x) \/ IsNaN(y) THEN NaN
    ELSE IF IsZero(x) THEN PowOfZero(x, y)
    ELSE IF IsInf(y) THEN PowToInf(x, y)
    ELSE IF IsInf(x) THEN PowOfInf(x, y)
    ELSE IF y = Half THEN FSqrt(x)
    ELSE IF y = FNeg(Half) THEN FDiv(One, FSqrt(x))
    ELSE PowFinite(x, y, ModfInt(FAbs(y)), ModfFrac(FAbs(y)))
\* math.Pow(10, y)
FPow10(y) == FPow(Ten, y)

\* The inputs of the model lie on a grid of 1/Unit = 0.05, the default
\* relative expansion of a scale: N(v) is the float64 v/Unit.
Unit == 20
N(v) == Eval(<<"N", v>>)
NOf(v) == FDiv(R(v), R(Unit))
\* The float64 values of the integers of S, and the interval between the
\* integers p[1] and p[2], unset for the empty p.
Rs(S) == {R(n) : n \in S}
Whole(p) == Eval(<<"Whole", p>>)
WholeOf(p) == IF p = <<>> THEN [Min |-> NaN, Max |-> NaN] ELSE [Min |-> R(p[1]), Max |-> R(p[2])]

\* ------------------------------------------------------------------------
\* Interval

Interval(min, max) == [Min |-> min, Max |-> max]

unsetInterval == Interval(NaN, NaN)

\* Interval.Update of the Plot pipeline: expands i to include x.
UpdateNaive(i, x) ==
    IF IsNaN(x) THEN i
    ELSE Interval(IF FGt(i.Min, x) THEN x ELSE i.Min,
                  IF FLt(i.Max, x) THEN x ELSE i.Max)
Update(i, x) ==
    IF IsNaN(x) THEN i
    ELSE LET m == IF ~FLt(i.Min, x) THEN x ELSE i.Min
             M == IF ~FGt(i.Max, x) THEN x ELSE i.Max
         IN  Interval(m, M)

\* Interval.Update(x ...float64) of scale.go: the same statements for each
\* value of x in turn.
RECURSIVE UpdateV(_, _)
UpdateV(i, xs) ==
    IF xs = <<>> THEN i ELSE UpdateV(Update(i, Head(xs)), Tail(xs))

\* Interval.Equal
Equal(i, j) ==
    IF IsNaN(i.Min) THEN IsNaN(j.Min)
    ELSE IF IsNaN(i.Max) THEN IsNaN(j.Max)
    ELSE FEq(i.Min, j.Min) /\ FEq(i.Max, j.Max)

\* Interval.Degenerate, statement by statement with the interval i and mod
\* so far: the repaired interval and the result "modified".
DegenerateSwap(i, mod) ==
    IF FGt(i.Min, i.Max) THEN [i |-> Interval(i.Max, i.Min), modified |-> TRUE]
    ELSE [i |-> i, modified |-> mod]
DegenerateBy(i, d) == Interval(FSub(i.Min, d), FAdd(i.Max, d))
DegenerateCollapsed(i, mod) ==
    IF ~FEq(i.Min, i.Max) THEN DegenerateSwap(i, mod)
    ELSE IF FEq(i.Min, Zero) THEN DegenerateSwap(Interval(NegOne, One), TRUE)
    ELSE DegenerateSwap(DegenerateBy(i, FDiv(i.Min, Ten)), TRUE)
DegenerateMax(i, mod) ==
    IF IsNaN(i.Max) \/ IsInf(i.Max) THEN DegenerateCollapsed(Interval(i.Min, One), TRUE)
    ELSE DegenerateCollapsed(i, mod)
Degenerate(i) == Eval(<<"Degenerate", i>>)
DegenerateOf(i) ==
    IF IsNaN(i.Min) \/ IsInf(i.Min) THEN DegenerateMax(Interval(NegOne, i.Max), TRUE)
    ELSE DegenerateMax(i, FALSE)

\* ------------------------------------------------------------------------
\* ScaleType

Linear == 0
Discrete == 1
Time == 2
Logarithmic == 3
ScaleTypes == {Linear, Discrete, Time, Logarithmic}

\* ------------------------------------------------------------------------
\* How a call ends: it returns a value, it panics with a value, it never
\* returns (a loop without end, which runs until the program is stopped or
\* out of memory), or it runs on beyond what the model follows.

Returns(v) == [end |-> "return", val |-> v]
Panics(v) == [end |-> "panic", val |-> v]
Never == [end |-> "never"]
Beyond == [end |-> "beyond"]

\* ------------------------------------------------------------------------
\* Tickers (plot.Ticker): the nil interface, DiscreteTicks{} of facet.go,
\* and plot.ConstantTicks, a slice of ticks.

Tick(v, l) == [Value |-> v, Label |-> l]
NoTicker == [type |-> "nil"]
DiscreteTicks == [type |-> "DiscreteTicks"]
ConstantTicks(ticks) == [type |-> "ConstantTicks", ticks |-> ticks]

\* ------------------------------------------------------------------------
\* Scale of the Plot pipeline (embedded Interval Min/Max is the limit)

NewScale ==
    [Data |-> unsetInterval, Min |-> NaN, Max |-> NaN, ScaleType |-> Linear,
     MinRange |-> unsetInterval, MaxRange |-> unsetInterval,
     Absolut |-> Zero, Releative |-> Twentieth,
     DataToUnit |-> FALSE, ColorMap |-> "nil", SizeMap |-> FALSE,
     Title |-> "", Ticker |-> NoTicker]

\* Data replaced by i instead of extended to cover it.
AssignData(s, i) == [s EXCEPT !.Data = i]

UpdateData(s, i) ==
    [s EXCEPT !.Data = Update(Update(s.Data, i.Min), i.Max)]

\* The promoted method Interval.Update of the embedded Interval of a Scale.
UpdateEmbedded(s, x) ==
    LET i == Update(Interval(s.Min, s.Max), x)
    IN  [s EXCEPT !.Min = i.Min, !.Max = i.Max]

FixMin(s, x) == [s EXCEPT !.MinRange = Interval(x, x)]
FixMax(s, x) == [s EXCEPT !.MaxRange = Interval(x, x)]

HasData(s) == ~IsNaN(s.Data.Min) /\ ~IsNaN(s.Data.Max)

\* Clip of an autoscaled edge x to the allowed range r.
ClipEdge(x, r) ==
    LET a == IF FGt(r.Min, x) THEN r.Min ELSE x
    IN  IF FLt(r.Max, a) THEN r.Max ELSE a

autoscale(s) == Eval(<<"autoscale", s>>)
autoscaleOf(s) ==
    IF ~HasData(s) THEN s
    ELSE
    LET ext == FAdd(FMul(s.Releative, FSub(s.Data.Max, s.Data.Min)), s.Absolut)
        lo  == IF FEq(s.MinRange.Min, s.MinRange.Max) THEN s.MinRange.Min
               ELSE LET e == CASE s.ScaleType \in {Linear, Time} -> FSub(s.Data.Min, ext)
                               [] s.ScaleType = Discrete -> FSub(s.Data.Min, FAdd(Half, ext))
                               [] s.ScaleType = Logarithmic -> FDiv(s.Data.Min, s.Absolut)
                    IN  ClipEdge(e, s.MinRange)
        hi  == IF FEq(s.MaxRange.Min, s.MaxRange.Max) THEN s.MaxRange.Min
               ELSE LET e == CASE s.ScaleType \in {Linear, Time} -> FAdd(s.Data.Max, ext)
                               [] s.ScaleType = Discrete -> FAdd(s.Data.Max, FAdd(Half, ext))
                               [] s.ScaleType = Logarithmic -> FMul(s.Data.Max, s.Absolut)
                    IN  ClipEdge(e, s.MaxRange)
    IN  [s EXCEPT !.Min = lo, !.Max = hi]

\* buildConversionFuncs panics for a logarithmic scale.
buildPanics(s) == s.ScaleType = Logarithmic
buildConversionFuncs(s) == [s EXCEPT !.DataToUnit = TRUE]

\* ------------------------------------------------------------------------
\* Transformation (trans.go)

Transformations ==
    {"IdentityTrans", "LinearTrans", "SqrtTrans", "SqrtTransFix0", "Log10Trans"}

LinearTransTrans(from, to, x) ==
    FAdd(to.Min, FDiv(FMul(FSub(to.Max, to.Min), FSub(x, from.Min)),
                      FSub(from.Max, from.Min)))

\* The inverse of LinearTrans.Trans(from, to, .) for the same from and to.
LinearTransUndo(from, to, y) ==
    FAdd(from.Min, FDiv(FMul(FSub(from.Max, from.Min), FSub(y, to.Min)),
                        FSub(to.Max, to.Min)))

LinearTransInverse(from, to, y) ==
    FAdd(to.Min, FDiv(FMul(FSub(to.Max, to.Min), FSub(y, from.Min)),
                      FSub(from.Max, from.Min)))

SqrtTransInverse(from, to, y) ==
    LET area == Interval(FMul(from.Min, from.Min), FMul(from.Max, from.Max))
    IN  LinearTransTrans(area, to, FMul(y, y))

SqrtTransFix0Inverse(from, to, y) ==
    LET from0 == Interval(Zero, from.Max)
        to0 == Interval(Zero, to.Max)
        area == Interval(FMul(from0.Min, from0.Min), FMul(from0.Max, from0.Max))
    IN  LinearTransTrans(area, to0, FMul(y, y))

Log10TransInverse(from, to, y) ==
    FMul(to.Min, FPow10(FDiv(FMul(FLog10(FDiv(to.Max, to.Min)), FSub(y, from.Min)),
                             FSub(from.Max, from.Min))))

SqrtTransTrans(from, to, x) ==
    LET area == Interval(FMul(to.Min, to.Min), FMul(to.Max, to.Max))
    IN  FSqrt(LinearTransTrans(from, area, x))

\* A square-root transformation that keeps from.Min and to.Min.
SqrtTransFix0TransFree(from, to, x) == SqrtTransTrans(from, to, x)

SqrtTransFix0Trans(from, to, x) ==
    LET from0 == Interval(Zero, from.Max)
        to0 == Interval(Zero, to.Max)
        area == Interval(FMul(to0.Min, to0.Min), FMul(to0.Max, to0.Max))
    IN  FSqrt(LinearTransTrans(from0, area, x))

Log10TransTrans(from, to, x) ==
    LET t == FDiv(FLog10(FDiv(x, from.Min)), FLog10(FDiv(from.Max, from.Min)))
    IN  FAdd(to.Min, FMul(t, FSub(to.Max, to.Min)))

\* s.Trans.Trans(from, to, x)
TransTrans(t, from, to, x) == Eval(<<"TransTrans", t, from, to, x>>)
TransTransOf(t, from, to, x) ==
    CASE t = "IdentityTrans" -> x
      [] t = "LinearTrans" -> LinearTransTrans(from, to, x)
      [] t = "SqrtTrans" -> SqrtTransTrans(from, to, x)
      [] t = "SqrtTransFix0" -> SqrtTransFix0Trans(from, to, x)
      [] t = "Log10Trans" -> Log10TransTrans(from, to, x)

\* s.Trans.Inverse(from, to, y)
TransInverse(t, from, to, y) == Eval(<<"TransInverse", t, from, to, y>>)
TransInverseOf(t, from, to, y) ==
    CASE t = "IdentityTrans" -> y
      [] t = "LinearTrans" -> LinearTransInverse(from, to, y)
      [] t = "SqrtTrans" -> SqrtTransInverse(from, to, y)
      [] t = "SqrtTransFix0" -> SqrtTransFix0Inverse(from, to, y)
      [] t = "Log10Trans" -> Log10TransInverse(from, to, y)

\* ------------------------------------------------------------------------
\* Scale of scale.go (Data, Limit, Range, Trans)

UnsetInterval == Interval(NaN, NaN)

NewScaleT ==
    [Data |-> UnsetInterval, Limit |-> UnsetInterval, Range |-> UnsetInterval,
     Trans |-> "IdentityTrans",
     MinRange |-> UnsetInterval, MaxRange |-> UnsetInterval,
     Absolute |-> Zero, Releative |-> Zero]

\* applyExpansion(min): the expanded edge, from Data and Expand.
applyExpansion(s, min) == Eval(<<"applyExpansion", s, min>>)
applyExpansionOf(s, min) ==
    LET U == Interval(Zero, One)
    IN  IF min
        THEN FSub(TransInverse(s.Trans, U, s.Data, FNeg(s.Releative)), s.Absolute)
        ELSE FAdd(TransInverse(s.Trans, U, s.Data, FAdd(One, s.Releative)), s.Absolute)

\* Autoscale turns the Data range into an actual scale range.
AutoscaleExpandPinned(s) ==
    IF ~HasData(s) THEN s
    ELSE [s EXCEPT
            !.Limit.Min = IF FEq(s.MinRange.Min, s.MinRange.Max)
                          THEN FSub(s.MinRange.Min, s.Absolute)
                          ELSE ClipEdge(applyExpansion(s, TRUE), s.MinRange),
            !.Limit.Max = IF FEq(s.MaxRange.Min, s.MaxRange.Max)
                          THEN FAdd(s.MaxRange.Min, s.Absolute)
                          ELSE ClipEdge(applyExpansion(s, FALSE), s.MaxRange)]
\* Autoscale starting from the previous Limit where there is one.
AutoscaleFromLimit(s) ==
    IF ~HasData(s) THEN s
    ELSE [s EXCEPT
            !.Limit.Min = IF FEq(s.MinRange.Min, s.MinRange.Max)
                          THEN s.MinRange.Min
                          ELSE ClipEdge(IF IsNaN(s.Limit.Min) THEN applyExpansion(s, TRUE)
                                        ELSE FSub(s.Limit.Min, One), s.MinRange),
            !.Limit.Max = IF FEq(s.MaxRange.Min, s.MaxRange.Max)
                          THEN s.MaxRange.Min
                          ELSE ClipEdge(IF IsNaN(s.Limit.Max) THEN applyExpansion(s, FALSE)
                                        ELSE FAdd(s.Limit.Max, One), s.MaxRange)]
\* Autoscale without the test for data.
AutoscaleAlways(s) ==
    [s EXCEPT
        !.Limit.Min = IF FEq(s.MinRange.Min, s.MinRange.Max)
                      THEN s.MinRange.Min
                      ELSE ClipEdge(applyExpansion(s, TRUE), s.MinRange),
        !.Limit.Max = IF FEq(s.MaxRange.Min, s.MaxRange.Max)
                      THEN s.MaxRange.Min
                      ELSE ClipEdge(applyExpansion(s, FALSE), s.MaxRange)]
Autoscale(s) == Eval(<<"Autoscale", s>>)
AutoscaleOf(s) ==
    IF ~HasData(s) THEN s
    ELSE [s EXCEPT
            !.Limit.Min = IF FEq(s.MinRange.Min, s.MinRange.Max)
                          THEN s.MinRange.Min
                          ELSE ClipEdge(applyExpansion(s, TRUE), s.MinRange),
            !.Limit.Max = IF FEq(s.MaxRange.Min, s.MaxRange.Max)
                          THEN s.MaxRange.Min
                          ELSE ClipEdge(applyExpansion(s, FALSE), s.MaxRange)]

fillRange(s) ==
    [s EXCEPT !.Range.Min = IF IsNaN(s.Range.Min) THEN s.Limit.Min ELSE @,
              !.Range.Max = IF IsNaN(s.Range.Max) THEN s.Limit.Max ELSE @]

\* Scale.Map: s.Trans.Trans(s.Limit, Interval{0, 1}, x)
Map(s, x) == Eval(<<"Map", s, x>>)
MapOf(s, x) == TransTrans(s.Trans, s.Limit, Interval(Zero, One), x)

\* Scale.InRange
InRange(s, x) == FGe(x, s.Limit.Min) /\ FLe(x, s.Limit.Max)

\* ------------------------------------------------------------------------
\* Plot

XScale == 0
YScale == 1
FillScale == 2
SizeScale == 3
ColorScale == 4
StyleScale == 5
SymbolScale == 6
numScales == 7

\* NewDataRanges: all intervals unset.
NewDataRanges == [i \in 0 .. numScales - 1 |-> unsetInterval]

\* The geoms registered in the panels. A geom of kind "adr" implements
\* AllDataRanger and reports dr; a geom of kind "sdr" implements only
\* plot.DataRanger and reports dr[XScale], dr[YScale] as xmin,xmax,ymin,ymax.
Geom(kind, x, y, size, fill) ==
    [kind |-> kind,
     dr |-> [NewDataRanges EXCEPT ![XScale] = x, ![YScale] = y,
                                  ![SizeScale] = size, ![FillScale] = fill]]
GeomTemplates ==
    { Geom(t[1], Whole(t[2]), Whole(t[3]), Whole(t[4]), Whole(t[5])) :
        t \in { <<"adr", <<0, 10>>, <<0, 10>>, <<>>, <<>>>>,
                <<"adr", <<20, 30>>, <<5, 5>>, <<5, 5>>, <<1, 3>>>>,
                <<"sdr", <<2, 3>>, <<2, 3>>, <<>>, <<>>>> } }

NewPlot(rows, cols, freeX, freeY) ==
    LET nX == IF freeX THEN cols ELSE 1
        nY == IF freeY THEN rows ELSE 1
    IN  [Rows |-> rows, Cols |-> cols,
         XScales |-> [c \in 1 .. cols |-> IF freeX THEN c ELSE 1],
         YScales |-> [r \in 1 .. rows |-> nX + (IF freeY THEN r ELSE 1)],
         Scales |-> [i \in 0 .. numScales - 1 |-> nX + nY + i + 1],
         scales |-> [id \in 1 .. nX + nY + numScales |-> NewScale],
         Panels |-> [rc \in (1 .. rows) \X (1 .. cols) |-> <<>>]]

\* The scale object f.Scales[i] stands for while panel (row, col) is learned.
ScaleAtStale(row, col, i) == Scales[i]
ScaleAt(row, col, i) ==
    IF i = XScale THEN XScales[col]
    ELSE IF i = YScale THEN YScales[row]
    ELSE Scales[i]

\* for i := range dr { f.Scales[i].UpdateData(dr[i]) }
RECURSIVE foldRanges(_, _, _, _, _)
foldRanges(scs, dr, row, col, i) ==
    IF i = numScales THEN scs
    ELSE LET id == ScaleAt(row, col, i)
         IN  foldRanges([scs EXCEPT ![id] = UpdateData(scs[id], dr[i])],
                        dr, row, col, i + 1)

learnGeom(scs, g, row, col) ==
    IF g.kind = "adr" THEN foldRanges(scs, g.dr, row, col, 0)
    ELSE IF g.kind = "sdr"
    THEN LET x == XScales[col]
             y == YScales[row]
             s1 == [scs EXCEPT ![x] = UpdateEmbedded(UpdateEmbedded(scs[x],
                                          g.dr[XScale].Min), g.dr[XScale].Max)]
         IN  [s1 EXCEPT ![y] = UpdateEmbedded(UpdateEmbedded(s1[y],
                                          g.dr[YScale].Min), g.dr[YScale].Max)]
    ELSE scs

RECURSIVE learnGeoms(_, _, _, _, _)
learnGeoms(scs, gs, row, col, k) ==
    IF k > Len(gs) THEN scs
    ELSE learnGeoms(learnGeom(scs, gs[k], row, col), gs, row, col, k + 1)

\* The panels in the order of the two nested loops, panel n of Rows*Cols.
PanelRow(n) == ((n - 1) \div Cols) + 1
PanelCol(n) == ((n - 1) % Cols) + 1

\* Every panel learned as if it were the panel of row 1 and column 1.
RECURSIVE learnPanelsAsOne(_, _)
learnPanelsAsOne(scs, n) ==
    IF n > Rows * Cols THEN scs
    ELSE learnPanelsAsOne(learnGeoms(scs, Panels[<<PanelRow(n), PanelCol(n)>>], 1, 1, 1), n + 1)

RECURSIVE learnPanels(_, _)
learnPanels(scs, n) ==
    IF n > Rows * Cols THEN scs
    ELSE learnPanels(learnGeoms(scs, Panels[<<PanelRow(n), PanelCol(n)>>],
                                PanelRow(n), PanelCol(n), 1), n + 1)

\* Learn all data ranges for all scales for all geoms in all panels.
learnDataRange(scs) == learnPanels(scs, 1)

\* learnDataRange leaves the scales of the last row and column in f.Scales.
ScalesAfterLearn ==
    IF Rows >= 1 /\ Cols >= 1
    THEN [Scales EXCEPT ![XScale] = XScales[Cols], ![YScale] = YScales[Rows]]
    ELSE IF Rows >= 1 THEN [Scales EXCEPT ![YScale] = YScales[Rows]]
    ELSE Scales

\* The slots applyToScales walks through: XScales, YScales, Scales.
ScaleSlots ==
    XScales \o YScales \o [k \in 1 .. numScales |-> Scales[k - 1]]

RECURSIVE visitAll(_, _)
visitAll(slots, done) ==
    IF slots = <<>> THEN <<>>
    ELSE <<Head(slots)>> \o visitAll(Tail(slots), done)

\* The objects applyToScales calls m on, in order: each one once.
RECURSIVE visitOnce(_, _)
visitOnce(slots, done) ==
    IF slots = <<>> THEN <<>>
    ELSE IF Head(slots) \in done THEN visitOnce(Tail(slots), done)
    ELSE <<Head(slots)>> \o visitOnce(Tail(slots), done \cup {Head(slots)})

applyToScales == visitOnce(ScaleSlots, {})

RECURSIVE applyAutoscale(_, _)
applyAutoscale(scs, visits) ==
    IF visits = <<>> THEN scs
    ELSE applyAutoscale([scs EXCEPT ![Head(visits)] = autoscale(scs[Head(visits)])],
                        Tail(visits))

\* X- and Y-scales must not be unset.
deDegenerate(s) ==
    [s EXCEPT !.Min = IF IsNaN(s.Min) THEN NegOne ELSE s.Min,
              !.Max = IF IsNaN(s.Max) THEN One ELSE s.Max]

RECURSIVE deDegenerateSeq(_, _)
deDegenerateSeq(scs, slots) ==
    IF slots = <<>> THEN scs
    ELSE deDegenerateSeq([scs EXCEPT ![Head(slots)] = deDegenerate(scs[Head(slots)])],
                         Tail(slots))

deDegenerateXandY(scs) == deDegenerateSeq(scs, XScales \o YScales)

\* for _, s := range ... { s.UpdateData(unsetInterval()) }
RECURSIVE resetData(_, _)
resetData(scs, slots) ==
    IF slots = <<>> THEN scs
    ELSE resetData([scs EXCEPT ![Head(slots)] = UpdateData(scs[Head(slots)], unsetInterval)],
                   Tail(slots))

setupColorAndSizeMaps(scs) ==
    LET ss == Scales[SizeScale]
        fs == Scales[FillScale]
        cs == Scales[ColorScale]
        WithMap(s) == IF HasData(s) /\ s.ColorMap = "nil"
                      THEN [s EXCEPT !.ColorMap = "default"] ELSE s
        s1 == [scs EXCEPT ![ss] = IF HasData(scs[ss])
                                  THEN [scs[ss] EXCEPT !.SizeMap = TRUE] ELSE scs[ss]]
        s2 == [s1 EXCEPT ![fs] = WithMap(s1[fs])]
    IN  [s2 EXCEPT ![cs] = WithMap(s2[cs])]

\* s.DataToUnit(d) of a linear, time or discrete scale
DataToUnit(s, d) == Eval(<<"DataToUnit", s, d>>)
DataToUnitOf(s, d) == FDiv(FSub(d, s.Min), FSub(s.Max, s.Min))

\* Scale.MapColor: the transparent color without conversion function or color
\* map, else the color of the map at t, with t clipped to [0, 1].
MapColor(s, x) == Eval(<<"MapColor", s, x>>)
MapColorOf(s, x) ==
    IF ~s.DataToUnit \/ s.ColorMap = "nil" THEN [color |-> "transparent"]
    ELSE LET t == DataToUnit(s, x)
             c == IF FLt(t, Zero) THEN Zero ELSE IF FGt(t, One) THEN One ELSE t
         IN  [color |-> "ColorMap.At", map |-> s.ColorMap, t |-> c]

\* Plot.MapColor(s, scale): a scale other than FillScale and ColorScale
\* makes it panic with the scale as value.
PlotMapColor(scale, x) == Eval(<<"PlotMapColor", scale, x>>)
PlotMapColorOf(scale, x) ==
    IF scale # ColorScale /\ scale # FillScale THEN Panics(scale)
    ELSE Returns(MapColor(scales[Scales[scale]], x))

\* The tickers a scale of the model carries: none, DiscreteTicks{}, and two
\* plot.ConstantTicks: WholeTicks are the ticks DiscreteTicks{} makes on
\* [0.9, 3.1], EndTicks tick and name the whole numbers 1 and 3.
WholeTicks == ConstantTicks(<<Tick(R(1), "1"), Tick(R(2), "2"), Tick(R(3), "3")>>)
EndTicks == ConstantTicks(<<Tick(R(1), "low"), Tick(R(3), "high")>>)
Tickers == {NoTicker, DiscreteTicks, WholeTicks, EndTicks}

\* The loop of DiscreteTicks.Ticks: a tick at min, min + 1, ... while
\* min <= max. Where min + 1 is min again (min is infinite, or too large
\* for a step of 1) the loop never ends: it appends the same tick again
\* and again.
RECURSIVE TickLoop(_, _, _)
TickLoop(ticks, min, max) ==
    IF ~FLe(min, max) THEN Returns(ticks)
    ELSE IF FAdd(min, One) = min THEN Never
    ELSE IF Len(ticks) = MaxTicks THEN Beyond
    ELSE TickLoop(Append(ticks, Tick(min, FormatInt(min))), FAdd(min, One), max)
\* DiscreteTicks.Ticks: a tick at every whole number of [min, max]. A loop
\* that starts below 2^53 and has to pass it stops advancing there
\* (2^53 + 1 is rounded to 2^53).
DiscreteTicksTicks(min, max) == Eval(<<"DiscreteTicksTicks", min, max>>)
DiscreteTicksTicksOf(min, max) ==
    IF FLt(Ceil(min), MaxWhole) /\ FLe(MaxWhole, Floor(max)) THEN Never
    ELSE TickLoop(<<>>, Ceil(min), Floor(max))
\* Ticker.Ticks(min, max) of a ticker other than nil: a plot.ConstantTicks
\* returns its ticks whatever min and max are.
Ticks(tk, min, max) == Eval(<<"Ticks", tk, min, max>>)
TicksOf(tk, min, max) ==
    IF tk.type = "ConstantTicks" THEN Returns(tk.ticks)
    ELSE DiscreteTicksTicks(min, max)

\* Two scales compared by scale type and range only.
canCombineByRange(j, k) ==
    LET s1 == scales[Scales[j]]
        s2 == scales[Scales[k]]
    IN  Returns(/\ s1.ScaleType = s2.ScaleType
                /\ FEq(s1.Min, s2.Min) /\ FEq(s1.Max, s2.Max))

\* Plot.canCombineScales
\* The ticks t1 and t2 differ in number, value or label.
ticksDiffer(t1, t2) ==
    \/ Len(t1) # Len(t2)
    \/ \E n \in 1 .. Len(t1) :
          \/ ~FEq(t1[n].Value, t2[n].Value)
          \/ t1[n].Label # t2[n].Label
\* s1.Ticker != s2.Ticker for two tickers other than nil: interface values
\* of different dynamic types differ; those of one type are compared by
\* value, and Go panics when the type cannot be compared, as the slice type
\* plot.ConstantTicks.
tickersDiffer(t1, t2) ==
    IF t1.type # t2.type THEN Returns(TRUE)
    ELSE IF t1.type = "ConstantTicks" THEN Panics("comparing uncomparable type")
    ELSE Returns(t1 # t2)
\* Rule 4 of canCombineScales: whether the tickers of s1 and s2 let them be
\* combined. The ticks of s1 are made before those of s2.
rule4(s1, s2, differ, t1, t2) ==
    IF differ.end # "return" THEN differ
    ELSE IF ~differ.val THEN Returns(TRUE)
    ELSE IF t1.end # "return" THEN t1
    ELSE IF t2.end # "return" THEN t2
    ELSE Returns(~ticksDiffer(t1.val, t2.val))
sameTicker(s1, s2) == Eval(<<"sameTicker", s1, s2>>)
sameTickerOf(s1, s2) ==
    IF s1.Ticker = NoTicker \/ s2.Ticker = NoTicker THEN Returns(TRUE)
    ELSE rule4(s1, s2, tickersDiffer(s1.Ticker, s2.Ticker),
               Ticks(s1.Ticker, s1.Min, s1.Max), Ticks(s2.Ticker, s2.Min, s2.Max))
\* The rules of canCombineScales for the scales s1 and s2 of the aesthetics
\* j and k.
canCombine(j, k, s1, s2) == Eval(<<"canCombine", j, k, s1, s2>>)
canCombineOf(j, k, s1, s2) ==
    IF s1.ScaleType # s2.ScaleType THEN Returns(FALSE)
    ELSE IF ~FEq(s1.Min, s2.Min) \/ ~FEq(s1.Max, s2.Max) THEN Returns(FALSE)
    ELSE IF s1.Title # s2.Title /\ s1.Title # "" /\ s2.Title # "" THEN Returns(FALSE)
    ELSE IF sameTicker(s1, s2).end # "return" THEN sameTicker(s1, s2)
    ELSE IF ~sameTicker(s1, s2).val THEN Returns(FALSE)
    ELSE IF /\ {j, k} = {FillScale, ColorScale}
            /\ s1.ColorMap # s2.ColorMap /\ s1.ColorMap # "nil" /\ s2.ColorMap # "nil"
         THEN Returns(FALSE)
    ELSE Returns(TRUE)
canCombineScales(j, k) == canCombine(j, k, scales[Scales[j]], scales[Scales[k]])

\* The first member of the combination combi that scale j cannot be combined
\* with (or the call for which does not return), 0 if there is none.
firstObstacle(combi, j) == Eval(<<"firstObstacle", combi, j>>)
firstObstacleOf(combi, j) ==
    LET at == {n \in 1 .. Len(combi) : canCombineScales(j, combi[n]) # Returns(TRUE)}
    IN  IF at = {} THEN 0 ELSE CHOOSE n \in at : \A m \in at : n <= m
\* Scale j joins every combination that has some member it can be combined
\* with, else it starts a new one.
placeGuideAny(combinations, j, i) ==
    LET joined == [n \in 1 .. Len(combinations) |->
                      IF \E m \in 1 .. Len(combinations[n]) :
                             canCombineScales(j, combinations[n][m]) = Returns(TRUE)
                      THEN Append(combinations[n], j) ELSE combinations[n]]
    IN  IF joined = combinations THEN Returns(Append(combinations, <<j>>))
        ELSE Returns(joined)
\* combineGuides: scale j joins the first combination all of whose members it
\* can be combined with, else it starts a new one. The members of a
\* combination are tried in order up to the first that cannot be combined.
RECURSIVE placeGuide(_, _, _)
placeGuide(combinations, j, i) ==
    IF i > Len(combinations) THEN Returns(Append(combinations, <<j>>))
    ELSE LET k == firstObstacle(combinations[i], j)
         IN  IF k = 0 THEN Returns([combinations EXCEPT ![i] = Append(@, j)])
             ELSE IF canCombineScales(j, combinations[i][k]).end # "return"
             THEN canCombineScales(j, combinations[i][k])
             ELSE placeGuide(combinations, j, i + 1)
RECURSIVE combineFrom(_, _)
combineFrom(combinations, j) ==
    IF j = numScales \/ combinations.end # "return" THEN combinations
    ELSE combineFrom(IF HasData(scales[Scales[j]]) THEN placeGuide(combinations.val, j, 1)
                     ELSE combinations, j + 1)
\* Plot.combineGuides
combineGuides == combineFrom(Returns(<<>>), FillScale)

\* Plot.needGuides
needGuides == \E j \in FillScale .. numScales - 1 : HasData(scales[Scales[j]])

\* All scales of the group are Fill or Color.
isColorGuide(group) == \A n \in 1 .. Len(group) : group[n] \in {FillScale, ColorScale}

\* Plot.isContinuousColorGuide
isContinuousColorGuide(group) ==
    IF scales[Scales[group[1]]].ScaleType = Discrete THEN FALSE
    ELSE \A n \in 1 .. Len(group) : group[n] \in {FillScale, ColorScale}

\* ------------------------------------------------------------------------
\* BarGroups (geom/geom.go)

\* The x values points are recorded at.
BarXs == Rs({1, 2, 4, 7})

\* 0.2, the gap between groups where none is given
DefaultGroupGap == [k |-> "num", s |-> 0, m |-> <<161061274, 26843545>>, e |-> -55]

\* NewBarGroups: Group is an empty map (no x has points), xs is nil.
NewBarGroups(position, groupGap, barGap, sameWidth) ==
    [Group |-> [x \in BarXs |-> <<>>],
     Position |-> position,
     Ggap |-> IF IsZero(groupGap) THEN DefaultGroupGap ELSE groupGap,
     Dgap |-> barGap,
     Same |-> sameWidth,
     xsNil |-> TRUE, xs |-> <<>>,
     md |-> Zero, lg |-> 0, points |-> 0, panicked |-> FALSE]

\* Record the point i with the given x coordinate.
Record(b, x, i) ==
    [b EXCEPT !.Group[x] = Append(@, i), !.xsNil = TRUE, !.xs = <<>>, !.points = @ + 1]

\* The keys of the map Group
GroupKeys(b) == {x \in BarXs : b.Group[x] # <<>>}

\* sort.Float64s of the numbers of S
RECURSIVE SortFloat64s(_)
SortFloat64s(S) ==
    IF S = {} THEN <<>>
    ELSE LET m == CHOOSE x \in S : \A y \in S : FLe(x, y)
         IN  <<m>> \o SortFloat64s(S \ {m})

\* The loop of recalc over the gaps xs[i] - xs[i-1] for i from 2 (counted
\* from 0), starting with md.
RECURSIVE minGap(_, _, _)
minGap(xs, md, i) ==
    IF i > Len(xs) THEN md
    ELSE LET m == FSub(xs[i], xs[i - 1])
         IN  minGap(xs, IF FLt(m, md) THEN m ELSE md, i + 1)

RECURSIVE largestGroup(_, _)
largestGroup(b, S) ==
    IF S = {} THEN 0
    ELSE LET x == CHOOSE y \in S : TRUE
             rest == largestGroup(b, S \ {x})
         IN  IF Len(b.Group[x]) > rest THEN Len(b.Group[x]) ELSE rest

\* recalc: nothing while xs is not nil. Else xs is the sorted keys, md is set
\* to 0 or 1 for no or one key, and bg.md = bg.xs[1] - bg.xs[0] follows for
\* any number of keys: with fewer than two the index is out of range and the
\* call panics, xs and md already assigned.
recalcKeys(b, xs) ==
    IF Len(xs) = 0 THEN [b EXCEPT !.xsNil = FALSE, !.xs = xs, !.md = Zero, !.panicked = TRUE]
    ELSE IF Len(xs) = 1
    THEN [b EXCEPT !.xsNil = FALSE, !.xs = xs, !.md = One, !.panicked = TRUE]
    ELSE [b EXCEPT !.xsNil = FALSE, !.xs = xs,
                   !.md = minGap(xs, FSub(xs[2], xs[1]), 3),
                   !.lg = largestGroup(b, GroupKeys(b))]
recalc(b) == Eval(<<"recalc", b>>)
recalcOf(b) == IF ~b.xsNil THEN b ELSE recalcKeys(b, SortFloat64s(GroupKeys(b)))

\* The run-time panic of an index i into a slice of length n
IndexOutOfRange(i, n) == [error |-> "index out of range", index |-> i, length |-> n]
\* panic(fmt.Sprintf(format, args...)): the format and its arguments
Message(format, args) == [format |-> format, args |-> args]

\* The loop of Width over bg.Group[x]: the position g, counted from 0, of
\* the first point k == i, and -1 without one.
RECURSIVE groupIndex(_, _, _)
groupIndex(group, i, j) ==
    IF j > Len(group) THEN -1
    ELSE IF group[j] = i THEN j - 1
    ELSE groupIndex(group, i, j + 1)

\* BarGroups.Width: the center and the halfwidth of the bar i at x. bg is
\* the BarGroups the call leaves and end how it ends. MinDelta recalculates,
\* and panics with fewer than two x values; MaxGroupSize then finds xs set.
\* Every product is rounded before the sum or difference it goes into.
Width(b0, x, i) == Eval(<<"Width", b0, x, i>>)
WidthOf(b0, x, i) ==
    LET b == recalc(b0)
        minDelta == b.md
        nonGapWidth == FMul(minDelta, FSub(One, b.Ggap))
        m == Len(b.Group[x])
        n == IF b.Same THEN b.lg ELSE m
        halfwidth == FDiv(nonGapWidth, R(2 * n))
        g == groupIndex(b.Group[x], i, 1)
    IN  IF b.panicked
        THEN [bg |-> b, end |-> Panics(IndexOutOfRange(1, Len(b.xs)))]
        ELSE IF b.Position # "dodge"
        THEN [bg |-> b, end |-> Returns(<<x, FDiv(nonGapWidth, Two)>>)]
        ELSE IF n = 0
        THEN [bg |-> [b EXCEPT !.panicked = TRUE],
              end |-> Panics(Message("No data at %g", <<x>>))]
        ELSE IF g = -1
        THEN [bg |-> [b EXCEPT !.panicked = TRUE],
              end |-> Panics(Message("No point %d at %g", <<i, x>>))]
        ELSE [bg |-> b,
              end |-> Returns(<<FAdd(x, FMul(R(2 * g - m + 1), halfwidth)),
                                FSub(halfwidth, FMul(minDelta, b.Dgap))>>)]

\* BarGroups.XRange: the left edge of the first bar at the smallest x and
\* the right edge of the last bar at the largest x. recalc panics with fewer
\* than two x values, before bg.xs[0] is read.
XRange(b0) == Eval(<<"XRange", b0>>)
XRangeOf(b0) ==
    LET b == recalc(b0)
        left == b.xs[1]
        right == b.xs[Len(b.xs)]
        l == Width(b, left, b.Group[left][1])
        r == Width(l.bg, right, b.Group[right][Len(b.Group[right])])
    IN  IF b.panicked
        THEN [bg |-> b, end |-> Panics(IndexOutOfRange(1, Len(b.xs)))]
        ELSE IF l.end.end # "return" THEN l
        ELSE IF r.end.end # "return" THEN r
        ELSE [bg |-> r.bg,
              end |-> Returns(<<FSub(l.end.val[1], l.end.val[2]),
                                FAdd(r.end.val[1], r.end.val[2])>>)]

\* Plot.colorMapFor: the loop tests the position i of a scale in the group,
\* counted from 0, against FillScale and ColorScale; without a hit a new
\* Rainbow is made.
RECURSIVE colorMapFrom(_, _)
colorMapFrom(group, n) ==
    IF n > Len(group) THEN "newRainbow"
    ELSE IF n - 1 # FillScale /\ n - 1 # ColorScale THEN colorMapFrom(group, n + 1)
    ELSE IF scales[Scales[group[n]]].ColorMap # "nil" THEN scales[Scales[group[n]]].ColorMap
    ELSE colorMapFrom(group, n + 1)
colorMapFor(group) == colorMapFrom(group, 1)

plotVars == <<Rows, Cols, XScales, YScales, Scales, scales, Panels, pc, calls, renders, ops>>
scaleVars == <<sc, scLast, scOps>>
ivVars == <<iv, fed, eq, res>>
barVars == <<bg>>

InitScale ==
    /\ sc = NewScaleT
    /\ scLast = "NewScale"
    /\ scOps = 0

\* The BarGroups of Bar.groups for a Bar without gaps
InitBars == bg = NewBarGroups("dodge", Zero, Zero, TRUE)

InitInterval ==
    /\ iv = UnsetInterval
    /\ fed = {}
    /\ eq = [i |-> UnsetInterval, j |-> UnsetInterval, ij |-> TRUE, ji |-> TRUE]
    /\ res = [op |-> "none"]

InitPlot ==
    \E rows \in 1 .. MaxRows, cols \in 1 .. MaxCols, freeX \in BOOLEAN, freeY \in BOOLEAN :
        LET f == NewPlot(rows, cols, freeX, freeY)
        IN  /\ rows * cols <= MaxPanels
            /\ Rows = f.Rows
            /\ Cols = f.Cols
            /\ XScales = f.XScales
            /\ YScales = f.YScales
            /\ Scales = f.Scales
            /\ scales = f.scales
            /\ Panels = f.Panels
            /\ pc = "idle"
            /\ calls = <<>>
            /\ renders = 0
            /\ ops = 0
            /\ InitScale
            /\ InitInterval
            /\ InitBars

\* The scale objects the user configures in the model.
ConfSlots == {<<"X", 1>>, <<"S", SizeScale>>}
SlotScale(slot) ==
    IF slot[1] = "X" THEN XScales[slot[2]]
    ELSE IF slot[1] = "Y" THEN YScales[slot[2]]
    ELSE Scales[slot[2]]
FixValues == Rs({5})

UserTurn == pc \in {"idle", "done"} /\ ops < MaxOps

\* f.Panels[r][c].Geoms = append(f.Panels[r][c].Geoms, g)
AddGeom ==
    /\ UserTurn
    /\ \E r \in 1 .. Rows, c \in 1 .. Cols, g \in GeomTemplates :
           Panels' = [Panels EXCEPT ![<<r, c>>] = Append(@, g)]
    /\ pc' = "idle"
    /\ ops' = ops + 1
    /\ UNCHANGED <<Rows, Cols, XScales, YScales, Scales, scales, calls, renders>>
    /\ UNCHANGED <<scaleVars, ivVars, barVars>>

\* f.Panels[r][c].Geoms = nil
ClearGeoms ==
    /\ UserTurn
    /\ \E r \in 1 .. Rows, c \in 1 .. Cols :
           /\ Panels[<<r, c>>] # <<>>
           /\ Panels' = [Panels EXCEPT ![<<r, c>>] = <<>>]
    /\ pc' = "idle"
    /\ ops' = ops + 1
    /\ UNCHANGED <<Rows, Cols, XScales, YScales, Scales, scales, calls, renders>>
    /\ UNCHANGED <<scaleVars, ivVars, barVars>>

\* s.ScaleType = t
SetScaleType ==
    /\ UserTurn
    /\ \E slot \in ConfSlots, t \in ScaleTypes :
           /\ scales[SlotScale(slot)].ScaleType # t
           /\ scales' = [scales EXCEPT ![SlotScale(slot)].ScaleType = t]
    /\ pc' = "idle"
    /\ ops' = ops + 1
    /\ UNCHANGED <<Rows, Cols, XScales, YScales, Scales, Panels, calls, renders>>
    /\ UNCHANGED <<scaleVars, ivVars, barVars>>

CallFixMin ==
    /\ UserTurn
    /\ \E slot \in ConfSlots, x \in FixValues :
           /\ scales[SlotScale(slot)].MinRange # Interval(x, x)
           /\ scales' = [scales EXCEPT ![SlotScale(slot)] = FixMin(@, x)]
    /\ pc' = "idle"
    /\ ops' = ops + 1
    /\ UNCHANGED <<Rows, Cols, XScales, YScales, Scales, Panels, calls, renders>>
    /\ UNCHANGED <<scaleVars, ivVars, barVars>>

CallFixMax ==
    /\ UserTurn
    /\ \E slot \in ConfSlots, x \in FixValues :
           /\ scales[SlotScale(slot)].MaxRange # Interval(x, x)
           /\ scales' = [scales EXCEPT ![SlotScale(slot)] = FixMax(@, x)]
    /\ pc' = "idle"
    /\ ops' = ops + 1
    /\ UNCHANGED <<Rows, Cols, XScales, YScales, Scales, Panels, calls, renders>>
    /\ UNCHANGED <<scaleVars, ivVars, barVars>>

\* Plot.Range, first part: the three loops over XScales, YScales and Scales.
RangeReset ==
    /\ pc \in {"idle", "done"}
    /\ renders < MaxRenders
    /\ scales' = resetData(scales, ScaleSlots)
    /\ pc' = "reset"
    /\ calls' = <<>>
    /\ renders' = renders + 1
    /\ UNCHANGED <<Rows, Cols, XScales, YScales, Scales, Panels, ops>>
    /\ UNCHANGED <<scaleVars, ivVars, barVars>>

\* f.learnDataRange()
RangeLearn ==
    /\ pc = "reset"
    /\ scales' = learnDataRange(scales)
    /\ Scales' = ScalesAfterLearn
    /\ pc' = "learned"
    /\ UNCHANGED <<Rows, Cols, XScales, YScales, Panels, calls, renders, ops>>
    /\ UNCHANGED <<scaleVars, ivVars, barVars>>

\* f.applyToScales((*Scale).autoscale)
RangeAutoscale ==
    /\ pc = "learned"
    /\ calls' = applyToScales
    /\ scales' = applyAutoscale(scales, applyToScales)
    /\ pc' = "autoscaled"
    /\ UNCHANGED <<Rows, Cols, XScales, YScales, Scales, Panels, renders, ops>>
    /\ UNCHANGED <<scaleVars, ivVars, barVars>>

\* f.deDegenerateXandY()
RangeDeDegenerate ==
    /\ pc = "autoscaled"
    /\ scales' = deDegenerateXandY(scales)
    /\ pc' = "dedegenerated"
    /\ UNCHANGED <<Rows, Cols, XScales, YScales, Scales, Panels, calls, renders, ops>>
    /\ UNCHANGED <<scaleVars, ivVars, barVars>>

\* f.applyToScales((*Scale).buildConversionFuncs): panics at the first
\* logarithmic scale it visits.
RECURSIVE buildUntilPanic(_, _)
buildUntilPanic(scs, visits) ==
    IF visits = <<>> THEN scs
    ELSE IF buildPanics(scs[Head(visits)]) THEN scs
    ELSE buildUntilPanic([scs EXCEPT ![Head(visits)] = buildConversionFuncs(scs[Head(visits)])],
                         Tail(visits))

RangeBuild ==
    /\ pc = "dedegenerated"
    /\ scales' = buildUntilPanic(scales, applyToScales)
    /\ pc' = IF \E k \in 1 .. Len(applyToScales) : buildPanics(scales[applyToScales[k]])
             THEN "panic" ELSE "built"
    /\ UNCHANGED <<Rows, Cols, XScales, YScales, Scales, Panels, calls, renders, ops>>
    /\ UNCHANGED <<scaleVars, ivVars, barVars>>

\* f.setupColorAndSizeMaps(); return nil
RangeSetup ==
    /\ pc = "built"
    /\ scales' = setupColorAndSizeMaps(scales)
    /\ pc' = "done"
    /\ UNCHANGED <<Rows, Cols, XScales, YScales, Scales, Panels, calls, renders, ops>>
    /\ UNCHANGED <<scaleVars, ivVars, barVars>>

vars == <<plotVars, scaleVars, ivVars, barVars>>

Init == InitPlot

Next ==
    \/ AddGeom
    \/ ClearGeoms
    \/ SetScaleType
    \/ CallFixMin
    \/ CallFixMax
    \/ RangeReset
    \/ RangeLearn
    \/ RangeAutoscale
    \/ RangeDeDegenerate
    \/ RangeBuild
    \/ RangeSetup

Spec == Init /\ [][Next]_vars

\* ------------------------------------------------------------------------
\* One Scale of scale.go under configuration, UpdateData and Autoscale

\* The plot every behaviour of the Scale and Interval specifications holds.
InitOnePlot ==
    LET f == NewPlot(1, 1, FALSE, FALSE)
    IN  /\ Rows = f.Rows
        /\ Cols = f.Cols
        /\ XScales = f.XScales
        /\ YScales = f.YScales
        /\ Scales = f.Scales
        /\ scales = f.scales
        /\ Panels = f.Panels
        /\ pc = "idle"
        /\ calls = <<>>
        /\ renders = 0
        /\ ops = 0

DataChoices ==
    {Whole(p) : p \in {<<3, 7>>, <<-2, 3>>, <<5, 5>>, <<0, 4>>, <<-6, -3>>}}
RangeChoices ==
    {Whole(<<1, 4>>), Whole(<<6, 9>>), UnsetInterval}
        \cup {Interval(NaN, x) : x \in Rs({4})} \cup {Interval(One, NaN)}
PinChoices == Rs({5, 9}) \cup {NaN}
ExpandChoices == {Zero, One}

ScConfig == scOps < MaxScaleOps

ScUpdateData ==
    /\ ScConfig
    /\ \E i \in DataChoices : sc' = UpdateData(sc, i)
    /\ scLast' = "UpdateData"
    /\ scOps' = scOps + 1
    /\ UNCHANGED <<plotVars, barVars, ivVars>>

ScFixMin ==
    /\ ScConfig
    /\ \E x \in PinChoices : sc' = FixMin(sc, x)
    /\ scLast' = "FixMin"
    /\ scOps' = scOps + 1
    /\ UNCHANGED <<plotVars, barVars, ivVars>>

ScFixMax ==
    /\ ScConfig
    /\ \E x \in PinChoices : sc' = FixMax(sc, x)
    /\ scLast' = "FixMax"
    /\ scOps' = scOps + 1
    /\ UNCHANGED <<plotVars, barVars, ivVars>>

\* s.MinRange = r
ScSetMinRange ==
    /\ ScConfig
    /\ \E r \in RangeChoices : sc' = [sc EXCEPT !.MinRange = r]
    /\ scLast' = "SetMinRange"
    /\ scOps' = scOps + 1
    /\ UNCHANGED <<plotVars, barVars, ivVars>>

\* s.MaxRange = r
ScSetMaxRange ==
    /\ ScConfig
    /\ \E r \in RangeChoices : sc' = [sc EXCEPT !.MaxRange = r]
    /\ scLast' = "SetMaxRange"
    /\ scOps' = scOps + 1
    /\ UNCHANGED <<plotVars, barVars, ivVars>>

\* s.Expand.Absolute = a; s.Expand.Releative = r
ScSetExpand ==
    /\ ScConfig
    /\ \E a \in ExpandChoices, r \in ExpandChoices :
           sc' = [sc EXCEPT !.Absolute = a, !.Releative = r]
    /\ scLast' = "SetExpand"
    /\ scOps' = scOps + 1
    /\ UNCHANGED <<plotVars, barVars, ivVars>>

\* s.Trans = t
ScSetTrans ==
    /\ ScConfig
    /\ \E t \in Transformations : sc' = [sc EXCEPT !.Trans = t]
    /\ scLast' = "SetTrans"
    /\ scOps' = scOps + 1
    /\ UNCHANGED <<plotVars, barVars, ivVars>>

ScAutoscale ==
    /\ scLast # "Autoscale"
    /\ sc' = Autoscale(sc)
    /\ scLast' = "Autoscale"
    /\ UNCHANGED <<scOps, plotVars, barVars, ivVars>>

InitScaleSpec == InitOnePlot /\ InitScale /\ InitInterval /\ InitBars

NextScale ==
    \/ ScUpdateData
    \/ ScFixMin
    \/ ScFixMax
    \/ ScSetMinRange
    \/ ScSetMaxRange
    \/ ScSetExpand
    \/ ScSetTrans
    \/ ScAutoscale

SpecScale == InitScaleSpec /\ [][NextScale]_vars

\* ------------------------------------------------------------------------
\* Interval.Update and Interval.Equal on their own

UpdateValues == {NaN, NegInf, PosInf} \cup Rs({-3, 0, 4, 7})
EqualValues == {NaN} \cup Rs({1, 2, 3, 5})

RECURSIVE SeqsUpTo(_, _)
SeqsUpTo(S, n) ==
    IF n = 0 THEN {<<>>}
    ELSE LET shorter == SeqsUpTo(S, n - 1)
         IN  shorter \cup {Append(q, x) : q \in shorter, x \in S}

\* iv.Update(xs...)
IvUpdate ==
    /\ \E xs \in SeqsUpTo(UpdateValues, MaxArgs) :
           /\ iv' = UpdateV(iv, xs)
           /\ fed' = fed \cup {xs[k] : k \in 1 .. Len(xs)}
    /\ UNCHANGED <<eq, res, plotVars, barVars, scaleVars>>

\* i.Equal(j) and j.Equal(i)
IvEqual ==
    /\ \E a \in EqualValues, b \in EqualValues, c \in EqualValues, d \in EqualValues :
           eq' = [i |-> Interval(a, b), j |-> Interval(c, d),
                  ij |-> Equal(Interval(a, b), Interval(c, d)),
                  ji |-> Equal(Interval(c, d), Interval(a, b))]
    /\ UNCHANGED <<iv, fed, res, plotVars, barVars, scaleVars>>

InitIntervalSpec == InitOnePlot /\ InitScale /\ InitInterval /\ InitBars

NextInterval == IvUpdate

SpecInterval == InitIntervalSpec /\ [][NextInterval]_vars

NextEqual == IvEqual

SpecEqual == InitIntervalSpec /\ [][NextEqual]_vars

\* ------------------------------------------------------------------------
\* Scale.Map and Scale.InRange on an autoscaled scale

MapPins == {NaN} \cup Rs({0, 5, 10})
MapXs == {NaN} \cup Rs({-3, 0, 5, 7, 10, 12})

\* A scale with a transformation, with or without data, with pinned or
\* autoscaled edges, before Autoscale; and the argument of the call.
InitMap ==
    /\ InitOnePlot /\ InitBars
    /\ iv = UnsetInterval
    /\ fed = {}
    /\ eq = [i |-> UnsetInterval, j |-> UnsetInterval, ij |-> TRUE, ji |-> TRUE]
    /\ scLast = "NewScale"
    /\ scOps = 0
    /\ \E t \in Transformations, lo \in MapPins, hi \in MapPins,
          d \in {UnsetInterval, Whole(<<2, 8>>)}, x \in MapXs :
           /\ sc = FixMax(FixMin(UpdateData([NewScaleT EXCEPT !.Trans = t], d), lo), hi)
           /\ res = [op |-> "MapArgs", x |-> x]

\* y := s.Map(x)
ScMap ==
    /\ scLast = "Autoscale"
    /\ res.op = "MapArgs"
    /\ res' = [op |-> "Map", x |-> res.x, y |-> Map(sc, res.x)]
    /\ UNCHANGED <<iv, fed, eq, plotVars, barVars, scaleVars>>

\* ok := s.InRange(x)
ScInRange ==
    /\ scLast = "Autoscale"
    /\ res.op = "MapArgs"
    /\ res' = [op |-> "InRange", x |-> res.x, ok |-> InRange(sc, res.x)]
    /\ UNCHANGED <<iv, fed, eq, plotVars, barVars, scaleVars>>

NextMap == ScAutoscale \/ ScMap \/ ScInRange

SpecMap == InitMap /\ [][NextMap]_vars

\* ------------------------------------------------------------------------
\* The transformations on their own

\* -0.1, 0.3, 0.7 and 100.05
MinusTenth == [k |-> "num", s |-> 1, m |-> <<161061274, 26843545>>, e |-> -56]
ThreeTenths == [k |-> "num", s |-> 0, m |-> <<53687091, 20132659>>, e |-> -54]
SevenTenths == [k |-> "num", s |-> 0, m |-> <<107374182, 23488102>>, e |-> -53]
Narrow == [k |-> "num", s |-> 0, m |-> <<53687091, 26227507>>, e |-> -46]
\* Intervals of whole numbers, [-0.1, 0.3], and the narrow [100, 100.05]
TransFroms ==
    {Whole(p) : p \in {<<10, 20>>, <<3, 5>>, <<-10, 30>>, <<1, 100>>, <<0, 20>>}}
        \cup {Interval(MinusTenth, ThreeTenths)}
TransTos ==
    {Whole(p) : p \in {<<0, 1>>, <<2, 20>>, <<3, 4>>, <<-4, -3>>, <<100, 200>>, <<10, 20>>}}
        \cup {Interval(MinusTenth, ThreeTenths), Interval(R(100), Narrow)}
TransXs == {Twentieth} \cup Rs({-10, 0, 1, 3, 4, 5, 7, 10, 12, 20, 30, 100})

\* The arguments of the calls: a transformation, its intervals and x <= x2.
InitTrans ==
    /\ InitOnePlot /\ InitScale /\ InitBars
    /\ iv = UnsetInterval
    /\ fed = {}
    /\ eq = [i |-> UnsetInterval, j |-> UnsetInterval, ij |-> TRUE, ji |-> TRUE]
    /\ \E t \in Transformations, from \in TransFroms, x \in TransXs, x2 \in TransXs :
         \E to \in TransTos :
           /\ FLe(x, x2)
           /\ res = [op |-> "TransArgs", t |-> t, from |-> from, to |-> to,
                     x |-> x, x2 |-> x2]

\* y := t.Trans(from, to, x); y2 := t.Trans(from, to, x2);
\* back := t.Inverse(from, to, y); inv := t.Inverse(to, from, y)
TrResult(a, y, y2) ==
    [op |-> "Trans", t |-> a.t, from |-> a.from, to |-> a.to, x |-> a.x, x2 |-> a.x2,
     y |-> y, y2 |-> y2,
     back |-> TransInverse(a.t, a.from, a.to, y),
     inv |-> TransInverse(a.t, a.to, a.from, y)]
TrCall ==
    /\ res.op = "TransArgs"
    /\ res' = TrResult(res, TransTrans(res.t, res.from, res.to, res.x),
                       TransTrans(res.t, res.from, res.to, res.x2))
    /\ UNCHANGED <<iv, fed, eq, plotVars, barVars, scaleVars>>

NextTrans == TrCall

SpecTrans == InitTrans /\ [][NextTrans]_vars

\* ------------------------------------------------------------------------
\* SqrtTransFix0 over the whole range of float64

\* 1e300, 1e200, 1e100 and 1e-200
E300 == [k |-> "num", s |-> 0, m |-> <<134247836, 25052104>>, e |-> 944]
E200 == [k |-> "num", s |-> 0, m |-> <<131555930, 21918093>>, e |-> 612]
E100 == [k |-> "num", s |-> 0, m |-> <<93635453, 19176146>>, e |-> 280]
EMinus200 == [k |-> "num", s |-> 0, m |-> <<89061292, 25684257>>, e |-> -717]

Fix0FromMaxs == {R(20), SevenTenths, R(-20), Zero, NaN, PosInf, E300, EMinus200}
Fix0ToMaxs == {R(4), ThreeTenths, R(-3), Zero, NaN, PosInf, NegInf, E200, E100, EMinus200}
Fix0FromMins == {Ten, R(-10)}
Fix0ToMins == {R(3), NegInf}
Fix0Xs == {Zero, NegZero, One}

\* The arguments of the calls of SqrtTransFix0: x is 0, -0, 1 or from.Max,
\* x2 is from.Max.
InitFix0 ==
    /\ InitOnePlot /\ InitScale /\ InitBars
    /\ iv = UnsetInterval
    /\ fed = {}
    /\ eq = [i |-> UnsetInterval, j |-> UnsetInterval, ij |-> TRUE, ji |-> TRUE]
    /\ \E fmin \in Fix0FromMins, fmax \in Fix0FromMaxs, tmin \in Fix0ToMins,
          tmax \in Fix0ToMaxs :
         \E x \in Fix0Xs \cup {fmax} :
           res = [op |-> "TransArgs", t |-> "SqrtTransFix0", from |-> Interval(fmin, fmax),
                  to |-> Interval(tmin, tmax), x |-> x, x2 |-> fmax]

SpecFix0 == InitFix0 /\ [][NextTrans]_vars

\* ------------------------------------------------------------------------
\* Interval.Degenerate on its own

DegenerateValues ==
    {NaN, NegInf, PosInf, FNeg(MaxFloat64), SmallestNonzeroFloat64, Twentieth, MaxFloat64}
        \cup Rs({-10, -1, 0, 1, 5})

\* modified := i.Degenerate(), on a fresh interval or on the result of the
\* call before.
\* The record of a call i.Degenerate() with the outcome r
DegenerateCall(i, r) ==
    [op |-> "Degenerate", in |-> i, out |-> r.i, modified |-> r.modified]

IvDegenerate ==
    /\ \E i \in {Interval(a, b) : a \in DegenerateValues, b \in DegenerateValues}
               \cup (IF res.op = "Degenerate" THEN {res.out} ELSE {}) :
           res' = DegenerateCall(i, Degenerate(i))
    /\ UNCHANGED <<iv, fed, eq, plotVars, barVars, scaleVars>>

NextDegenerate == IvDegenerate

SpecDegenerate == InitIntervalSpec /\ [][NextDegenerate]_vars

\* ------------------------------------------------------------------------
\* Guides and colors of a plot of one panel after Range

\* A geom implementing AllDataRanger with data for the non-positional scales.
GuideGeom(fill, size, color, style, symbol) ==
    [kind |-> "adr",
     dr |-> [NewDataRanges EXCEPT ![XScale] = Interval(Zero, Ten),
                                  ![YScale] = Interval(Zero, Ten),
                                  ![FillScale] = fill, ![SizeScale] = size,
                                  ![ColorScale] = color, ![StyleScale] = style,
                                  ![SymbolScale] = symbol]]
GuideGeomSet(a, b, u) ==
    { GuideGeom(u, u, u, u, u), GuideGeom(a, a, a, u, u),
      GuideGeom(a, u, b, u, a), GuideGeom(u, a, a, a, a) }
GuideGeoms == GuideGeomSet(Whole(<<1, 3>>), Whole(<<1, 5>>), unsetInterval)
\* Logarithmic scales make Range panic.
GuideTypes == {Linear, Discrete, Time}
GuideTitles == {"", "a", "b"}
GuideColorMaps == {"nil", "rainbow", "kindlmann"}
GuideXs == {NaN} \cup Rs({0, 2, 6})

\* The plot of NewPlot(1, 1, false, false) with one geom, the Fill and Color
\* scales configured by the user, ready for its Range call.
InitGuides ==
    \E g \in GuideGeoms,
       ft \in GuideTypes, fn \in {"", "a"}, fk \in {DiscreteTicks, WholeTicks},
       fm \in {"nil", "rainbow"},
       ct \in GuideTypes, cn \in GuideTitles, ck \in Tickers, cm \in GuideColorMaps :
        LET f == NewPlot(1, 1, FALSE, FALSE)
            fs == f.Scales[FillScale]
            cs == f.Scales[ColorScale]
        IN  /\ Rows = f.Rows
            /\ Cols = f.Cols
            /\ XScales = f.XScales
            /\ YScales = f.YScales
            /\ Scales = f.Scales
            /\ scales = [f.scales EXCEPT
                   ![fs] = [@ EXCEPT !.ScaleType = ft, !.Title = fn, !.Ticker = fk,
                                     !.ColorMap = fm],
                   ![cs] = [@ EXCEPT !.ScaleType = ct, !.Title = cn, !.Ticker = ck,
                                     !.ColorMap = cm]]
            /\ Panels = [f.Panels EXCEPT ![<<1, 1>>] = <<g>>]
            /\ pc = "idle"
            /\ calls = <<>>
            /\ renders = MaxRenders - 1
            /\ ops = 0
            /\ InitScale
            /\ InitInterval
            /\ InitBars

\* The plot is ranged and no call on it has been recorded yet.
GuideTurn == pc = "done" /\ res.op = "none"

\* f.MapColor(x, scale)
GdMapColor ==
    /\ GuideTurn
    /\ \E scale \in {SizeScale, FillScale, ColorScale}, x \in GuideXs :
           LET c == PlotMapColor(scale, x)
           IN  res' = IF c.end = "return"
                      THEN [op |-> "MapColor", scale |-> scale, x |-> x, col |-> c.val]
                      ELSE [op |-> "MapColor panic", scale |-> scale, x |-> x,
                            value |-> c.val]
    /\ UNCHANGED <<plotVars, barVars, scaleVars, iv, fed, eq>>

\* f.combineGuides(), as Draw calls it when f.needGuides()
GdCombine ==
    /\ GuideTurn
    /\ needGuides
    /\ LET c == combineGuides
       IN  res' = [op |-> "combineGuides", end |-> c.end,
                   combinations |-> IF c.end = "return" THEN c.val ELSE <<>>]
    /\ UNCHANGED <<plotVars, barVars, scaleVars, iv, fed, eq>>

\* f.canCombineScales(j, k) and f.canCombineScales(k, j)
GdCanCombine ==
    /\ GuideTurn
    /\ \E j \in {FillScale, SizeScale, ColorScale}, k \in {FillScale, SizeScale, ColorScale} :
           res' = [op |-> "canCombineScales", j |-> j, k |-> k,
                   jk |-> canCombineScales(j, k), kj |-> canCombineScales(k, j)]
    /\ UNCHANGED <<plotVars, barVars, scaleVars, iv, fed, eq>>

\* f.drawGuides(c, combo) for a combo of f.combineGuides(): the choice
\* between drawContinuousColorGuide and drawDiscreteGuides.
GdDrawGuides ==
    /\ GuideTurn
    /\ needGuides
    /\ LET c == combineGuides
       IN  /\ c.end = "return"
           /\ \E n \in 1 .. Len(c.val) :
                  res' = [op |-> "drawGuides", group |-> c.val[n],
                          continuous |-> isContinuousColorGuide(c.val[n])]
    /\ UNCHANGED <<plotVars, barVars, scaleVars, iv, fed, eq>>

\* f.colorMapFor(combo), as drawGuides calls it for a continuous color guide
\* and drawDiscreteGuides for a group with the Fill or the Color scale
GdColorMapFor ==
    /\ GuideTurn
    /\ needGuides
    /\ LET c == combineGuides
       IN  /\ c.end = "return"
           /\ \E n \in 1 .. Len(c.val) :
                  /\ \E m \in 1 .. Len(c.val[n]) : c.val[n][m] \in {FillScale, ColorScale}
                  /\ res' = [op |-> "colorMapFor", group |-> c.val[n],
                             cm |-> colorMapFor(c.val[n])]
    /\ UNCHANGED <<plotVars, barVars, scaleVars, iv, fed, eq>>

NextGuides ==
    \/ RangeReset
    \/ RangeLearn
    \/ RangeAutoscale
    \/ RangeDeDegenerate
    \/ RangeBuild
    \/ RangeSetup
    \/ GdMapColor
    \/ GdCombine
    \/ GdCanCombine
    \/ GdDrawGuides
    \/ GdColorMapFor

SpecGuides == InitGuides /\ [][NextGuides]_vars

\* ------------------------------------------------------------------------
\* A Scale of scale.go with Autoscale called twice in a row

\* s.Autoscale() right after s.Autoscale()
ScAutoscaleAgain ==
    /\ scLast = "Autoscale"
    /\ res.op = "none"
    /\ sc' = Autoscale(sc)
    /\ res' = [op |-> "Autoscale", once |-> sc.Limit, twice |-> Autoscale(sc).Limit]
    /\ UNCHANGED <<scLast, scOps, plotVars, barVars, iv, fed, eq>>

NextAgain ==
    \/ NextScale
    \/ ScAutoscaleAgain

SpecAgain == InitScaleSpec /\ [][NextAgain]_vars

\* ------------------------------------------------------------------------
\* A Scale of scale.go whose Range is filled from its Limit after Autoscale

FillTrans == {"IdentityTrans", "LinearTrans"}
FillEdges == Rs({1, 20})

\* res.user holds the Range edges the user has set, NaN where he set none.
InitFill ==
    /\ InitOnePlot
    /\ \E t \in FillTrans : sc = [NewScaleT EXCEPT !.Trans = t]
    /\ scLast = "NewScale"
    /\ scOps = 0
    /\ iv = UnsetInterval
    /\ fed = {}
    /\ eq = [i |-> UnsetInterval, j |-> UnsetInterval, ij |-> TRUE, ji |-> TRUE]
    /\ res = [op |-> "Range", user |-> UnsetInterval]
    /\ InitBars

\* s.Range.Min = x
ScSetRangeMin ==
    /\ ScConfig
    /\ \E x \in FillEdges :
           /\ sc' = [sc EXCEPT !.Range.Min = x]
           /\ res' = [res EXCEPT !.user.Min = x]
    /\ scLast' = "SetRange"
    /\ scOps' = scOps + 1
    /\ UNCHANGED <<plotVars, barVars, iv, fed, eq>>

\* s.Range.Max = x
ScSetRangeMax ==
    /\ ScConfig
    /\ \E x \in FillEdges :
           /\ sc' = [sc EXCEPT !.Range.Max = x]
           /\ res' = [res EXCEPT !.user.Max = x]
    /\ scLast' = "SetRange"
    /\ scOps' = scOps + 1
    /\ UNCHANGED <<plotVars, barVars, iv, fed, eq>>

\* s.Autoscale(); s.fillRange()
ScFillRange ==
    /\ scLast # "fillRange"
    /\ sc' = fillRange(Autoscale(sc))
    /\ scLast' = "fillRange"
    /\ UNCHANGED <<scOps, plotVars, barVars, ivVars>>

NextFill ==
    \/ ScUpdateData
    \/ ScFixMin
    \/ ScSetRangeMin
    \/ ScSetRangeMax
    \/ ScFillRange

SpecFill == InitFill /\ [][NextFill]_vars

\* ------------------------------------------------------------------------
\* The Data of a Scale of scale.go under UpdateData and Data.Update

\* s.UpdateData(Interval{a, b}), and the same call once more
ScUpdateDataAny ==
    /\ \E a \in UpdateValues, b \in UpdateValues :
           /\ sc' = UpdateData(sc, Interval(a, b))
           /\ res' = [op |-> "UpdateData", before |-> sc.Data, i |-> Interval(a, b),
                      again |-> UpdateData(UpdateData(sc, Interval(a, b)), Interval(a, b)).Data]
    /\ scLast' = "UpdateData"
    /\ UNCHANGED <<scOps, plotVars, barVars, iv, fed, eq>>

\* s.Data.Update(x...), and the same call once more
ScDataUpdate ==
    /\ \E xs \in SeqsUpTo(UpdateValues, MaxArgs) :
           /\ sc' = [sc EXCEPT !.Data = UpdateV(@, xs)]
           /\ res' = [op |-> "Update", before |-> sc.Data, x |-> xs,
                      again |-> UpdateV(UpdateV(sc.Data, xs), xs)]
    /\ scLast' = "Update"
    /\ UNCHANGED <<scOps, plotVars, barVars, iv, fed, eq>>

NextData ==
    \/ ScUpdateDataAny
    \/ ScDataUpdate

SpecData == InitScaleSpec /\ [][NextData]_vars

\* ------------------------------------------------------------------------
\* A BarGroups under Record and its queries

MaxPoints == 3

BgAlive == ~bg.panicked

\* g.Record(x, i), i the number of the point as in Bar.groups
BgRecord ==
    /\ BgAlive
    /\ bg.points < MaxPoints
    /\ \E x \in BarXs : bg' = Record(bg, x, bg.points)
    /\ UNCHANGED <<plotVars, scaleVars, ivVars>>

\* A query of bg: recalc gives b, and the query returns a field of b.
BgQuery(op, b) ==
    /\ bg' = b
    /\ res' = [op |-> op, Group |-> bg.Group, panic |-> b.panicked,
               out |-> CASE op = "Xs" -> b.xs
                         [] op = "MinDelta" -> b.md
                         [] op = "MaxGroupSize" -> b.lg]

\* g.Xs(), as Bar.rects calls it for Bar.AllDataRanges
BgXs ==
    /\ BgAlive
    /\ BgQuery("Xs", recalc(bg))
    /\ UNCHANGED <<plotVars, scaleVars, iv, fed, eq>>

\* g.MinDelta()
BgMinDelta ==
    /\ BgAlive
    /\ BgQuery("MinDelta", recalc(bg))
    /\ UNCHANGED <<plotVars, scaleVars, iv, fed, eq>>

\* g.MaxGroupSize()
BgMaxGroupSize ==
    /\ BgAlive
    /\ BgQuery("MaxGroupSize", recalc(bg))
    /\ UNCHANGED <<plotVars, scaleVars, iv, fed, eq>>

\* g.Width(x, i)
BgWidth ==
    /\ BgAlive
    /\ \E x \in BarXs, i \in 0 .. MaxPoints - 1 :
           LET w == Width(bg, x, i)
           IN  /\ bg' = w.bg
               /\ res' = [op |-> "Width", Group |-> bg.Group, x |-> x, i |-> i,
                          end |-> w.end]
    /\ UNCHANGED <<plotVars, scaleVars, iv, fed, eq>>

\* g.XRange()
BgXRange ==
    /\ BgAlive
    /\ LET w == XRange(bg)
       IN  /\ bg' = w.bg
           /\ res' = [op |-> "XRange", Group |-> bg.Group, end |-> w.end]
    /\ UNCHANGED <<plotVars, scaleVars, iv, fed, eq>>

NextBars ==
    \/ BgRecord
    \/ BgXs
    \/ BgMinDelta
    \/ BgMaxGroupSize
    \/ BgWidth
    \/ BgXRange

\* The arguments of NewBarGroups: those of Bar.groups for a Bar without
\* gaps, dodged bars of their own widths with gaps, and stacked bars.
BarGroupsArgs ==
    { <<"dodge", Zero, Zero, TRUE>>,
      <<"dodge", Half, Twentieth, FALSE>>,
      <<"stack", Zero, Twentieth, TRUE>>,
      <<"stack", Half, Zero, FALSE>> }

InitBarGroups ==
    /\ InitOnePlot /\ InitScale /\ InitInterval
    /\ \E a \in BarGroupsArgs : bg = NewBarGroups(a[1], a[2], a[3], a[4])

SpecBars == InitBarGroups /\ [][NextBars]_vars

\* ------------------------------------------------------------------------
\* Scales without data: a plot of one panel under Range, and a Scale of
\* scale.go under UpdateData, FixMin, FixMax and Autoscale

InitNoData ==
    \E g \in GuideGeoms :
        LET f == NewPlot(1, 1, FALSE, FALSE)
        IN  /\ Rows = f.Rows
            /\ Cols = f.Cols
            /\ XScales = f.XScales
            /\ YScales = f.YScales
            /\ Scales = f.Scales
            /\ scales = f.scales
            /\ Panels = [f.Panels EXCEPT ![<<1, 1>>] = <<g>>]
            /\ pc = "idle"
            /\ calls = <<>>
            /\ renders = MaxRenders - 1
            /\ ops = 0
            /\ InitScale
            /\ InitInterval
            /\ InitBars

NextNoData ==
    \/ RangeReset
    \/ RangeLearn
    \/ RangeAutoscale
    \/ RangeDeDegenerate
    \/ RangeBuild
    \/ RangeSetup
    \/ ScUpdateData
    \/ ScFixMin
    \/ ScFixMax
    \/ ScAutoscale

SpecNoData == InitNoData /\ [][NextNoData]_vars

\* ------------------------------------------------------------------------
\* Application of an operation to its arguments

Eval(v) ==
    CASE v[1] = "Pack" -> PackOf(v[2], v[3], v[4], v[5])
      [] v[1] = "Shr" -> ShrOf(v[2], v[3])
      [] v[1] = "Shl" -> ShlOf(v[2], v[3])
      [] v[1] = "BigAdd" -> BigAddOf(v[2], v[3])
      [] v[1] = "BigSub" -> BigSubOf(v[2], v[3])
      [] v[1] = "BitLen" -> BitLenOf(v[2])
      [] v[1] = "BigMul" -> BigMulOf(v[2], v[3])
      [] v[1] = "BigDiv" -> BigDivOf(v[2], v[3])
      [] v[1] = "FMul" -> FMulOf(v[2], v[3])
      [] v[1] = "FAdd" -> FAddOf(v[2], v[3])
      [] v[1] = "FSub" -> FSubOf(v[2], v[3])
      [] v[1] = "FDiv" -> FDivOf(v[2], v[3])
      [] v[1] = "R" -> ROf(v[2])
      [] v[1] = "FSqrt" -> FSqrtOf(v[2])
      [] v[1] = "Ldexp" -> LdexpOf(v[2], v[3])
      [] v[1] = "FLog" -> FLogOf(v[2])
      [] v[1] = "FLog2" -> FLog2Of(v[2])
      [] v[1] = "FLog10" -> FLog10Of(v[2])
      [] v[1] = "FExp" -> FExpOf(v[2])
      [] v[1] = "FPow" -> FPowOf(v[2], v[3])
      [] v[1] = "PowPass" -> PowPassOf(v[2])
      [] v[1] = "Floor" -> FloorOf(v[2])
      [] v[1] = "Ceil" -> CeilOf(v[2])
      [] v[1] = "N" -> NOf(v[2])
      [] v[1] = "Whole" -> WholeOf(v[2])
      [] v[1] = "Degenerate" -> DegenerateOf(v[2])
      [] v[1] = "autoscale" -> autoscaleOf(v[2])
      [] v[1] = "TransTrans" -> TransTransOf(v[2], v[3], v[4], v[5])
      [] v[1] = "TransInverse" -> TransInverseOf(v[2], v[3], v[4], v[5])
      [] v[1] = "applyExpansion" -> applyExpansionOf(v[2], v[3])
      [] v[1] = "Autoscale" -> AutoscaleOf(v[2])
      [] v[1] = "Map" -> MapOf(v[2], v[3])
      [] v[1] = "MapColor" -> MapColorOf(v[2], v[3])
      [] v[1] = "DiscreteTicksTicks" -> DiscreteTicksTicksOf(v[2], v[3])
      [] v[1] = "Ticks" -> TicksOf(v[2], v[3], v[4])
      [] v[1] = "recalc" -> recalcOf(v[2])
      [] v[1] = "DataToUnit" -> DataToUnitOf(v[2], v[3])
      [] v[1] = "canCombine" -> canCombineOf(v[2], v[3], v[4], v[5])
      [] v[1] = "FormatInt" -> FormatIntOf(v[2])
      [] v[1] = "sameTicker" -> sameTickerOf(v[2], v[3])
      [] v[1] = "PlotMapColor" -> PlotMapColorOf(v[2], v[3])
      [] v[1] = "firstObstacle" -> firstObstacleOf(v[2], v[3])
      [] v[1] = "Width" -> WidthOf(v[2], v[3], v[4])
      [] v[1] = "XRange" -> XRangeOf(v[2])

\* ------------------------------------------------------------------------
\* Properties of the Plot pipeline

\* The scale objects reachable from XScales, YScales and Scales.
Reachable == {ScaleSlots[k] : k \in 1 .. Len(ScaleSlots)}

Count(q, x) == Cardinality({k \in 1 .. Len(q) : q[k] = x})

\* The extents the AllDataRanger geoms of all panels report for scale id.
AdrExtents(id) ==
    UNION { UNION { { Panels[rc][k].dr[i] : i \in
                        { j \in 0 .. numScales - 1 :
                            /\ Panels[rc][k].kind = "adr"
                            /\ (IF j = XScale THEN XScales[rc[2]]
                                ELSE IF j = YScale THEN YScales[rc[1]]
                                ELSE Scales[j]) = id } } :
                    k \in 1 .. Len(Panels[rc]) } :
            rc \in DOMAIN Panels }

\* The bounding interval of a set of intervals, unset if none has a value.
Hull(S) ==
    LET vals == {i.Min : i \in S} \cup {i.Max : i \in S}
        nums == {x \in vals : ~IsNaN(x)}
    IN  IF nums = {} THEN unsetInterval
        ELSE Interval(CHOOSE m \in nums : \A n \in nums : FLe(m, n),
                      CHOOSE m \in nums : \A n \in nums : FGe(m, n))

Covers(d, e) ==
    /\ IsNaN(e.Min) \/ FLe(d.Min, e.Min)
    /\ IsNaN(e.Max) \/ FGe(d.Max, e.Max)

SharedX == \A c \in 1 .. Cols : XScales[c] = XScales[1]

Unpinned(s) == s.MinRange = unsetInterval /\ s.MaxRange = unsetInterval

\* One application of the default expansion (5% of the span on either side,
\* and half a unit more on a discrete scale) to the interval d.
ExpandedOnce(d, discrete) ==
    LET ext == FAdd(FMul(Twentieth, FSub(d.Max, d.Min)), IF discrete THEN Half ELSE Zero)
    IN  Interval(FSub(d.Min, ext), FAdd(d.Max, ext))

\* C1: after Range on a plot whose columns share the X scale, the Data of that
\* one scale contains the X extents of the geoms of every panel, on the first
\* render it is exactly their bounding interval, and the limit is Data
\* expanded once.
InvC1 ==
    (pc = "done" /\ SharedX) =>
        LET s == scales[XScales[1]]
        IN  /\ \A e \in AdrExtents(XScales[1]) : Covers(s.Data, e)
            /\ renders = 1 => s.Data = Hull(AdrExtents(XScales[1]))
            /\ (HasData(s) /\ Unpinned(s)) =>
                   Interval(s.Min, s.Max) = ExpandedOnce(s.Data, s.ScaleType = Discrete)

WitC1 ==
    /\ pc = "done"
    /\ Cols = 2
    /\ XScales[1] = XScales[2]
    /\ \E r1 \in 1 .. Rows, r2 \in 1 .. Rows :
           /\ Len(Panels[<<r1, 1>>]) = 1
           /\ Len(Panels[<<r2, 2>>]) = 1
           /\ Panels[<<r1, 1>>][1].dr[XScale] = Interval(Zero, Ten)
           /\ Panels[<<r2, 2>>][1].dr[XScale] = Interval(R(20), R(30))
    /\ scales[XScales[1]].Data = Interval(Zero, R(30))
    /\ scales[XScales[1]].Min = N(-30)
    /\ scales[XScales[1]].Max = N(630)

AfterAutoscale == pc \in {"autoscaled", "dedegenerated", "built", "done", "panic"}

\* C2: once applyToScales has run autoscale in a Range call, autoscale has
\* been invoked exactly once on every reachable scale object and on no other,
\* and the Data of every scale already holds the extents of all geoms of all
\* panels.
InvC2 ==
    AfterAutoscale =>
        /\ \A id \in Reachable : Count(calls, id) = 1
        /\ \A k \in 1 .. Len(calls) : calls[k] \in Reachable
        /\ \A id \in Reachable : \A e \in AdrExtents(id) : Covers(scales[id].Data, e)

WitC2 ==
    /\ pc = "done"
    /\ Rows = 2 /\ Cols = 2
    /\ XScales[1] = XScales[2]
    /\ YScales[1] = YScales[2]
    /\ Len(calls) = numScales
    /\ Scales[XScale] = XScales[1]
    /\ \E rc \in DOMAIN Panels : Panels[rc] # <<>>
    /\ HasData(scales[XScales[1]])

\* C3: Range starts by resetting the Data of every scale to unset, and after
\* Range the Data of every scale is the bounding interval of the geoms that
\* are registered now.
InvC3 ==
    /\ pc = "reset" => \A id \in Reachable : scales[id].Data = unsetInterval
    /\ pc = "done" => \A id \in Reachable : scales[id].Data = Hull(AdrExtents(id))

\* C4: after Range every scale with data has a limit with both edges set and
\* Min < Max.
InvC4 ==
    pc = "done" =>
        \A id \in Reachable :
            HasData(scales[id]) =>
                /\ ~IsNaN(scales[id].Min)
                /\ ~IsNaN(scales[id].Max)
                /\ FLt(scales[id].Min, scales[id].Max)

\* Every registered geom reports its extents through AllDataRanges.
OnlyAdrGeoms ==
    \A rc \in DOMAIN Panels : \A k \in 1 .. Len(Panels[rc]) : Panels[rc][k].kind = "adr"

\* C5: after the de-degenerate step every X and Y scale has a finite limit
\* with Min < Max, and a scale without data has the limit [-1, 1].
InvC5 ==
    pc \in {"dedegenerated", "built", "done"} =>
        \A k \in 1 .. Len(XScales \o YScales) :
            LET s == scales[(XScales \o YScales)[k]]
            IN  /\ IsNum(s.Min) /\ IsNum(s.Max) /\ FLt(s.Min, s.Max)
                /\ (~HasData(s) /\ renders = 1 /\ OnlyAdrGeoms)
                       => Interval(s.Min, s.Max) = Interval(NegOne, One)

\* ------------------------------------------------------------------------
\* Properties of Scale.Autoscale (scale.go)

\* float64 arithmetic rounds every intermediate result: RoundOff(i) is the
\* distance that the rounding of the steps of a transformation over the
\* interval i may put a result at, 2^-48 of the magnitude of i. Near(a, b, i)
\* says that a is b up to that distance.
RoundOff(i) == FMul(Ldexp(One, -48), FAdd(One, FAdd(FAbs(i.Min), FAbs(i.Max))))
Near(a, b, i) == IsNum(a) /\ IsNum(b) /\ FLe(FAbs(FSub(a, b)), RoundOff(i))

\* C6: with data, zero expansion and no MinRange/MaxRange, Autoscale gives
\* Limit == Data, up to the rounding of the numbers, whatever the
\* transformation.
InvC6 ==
    (/\ scLast = "Autoscale"
     /\ HasData(sc)
     /\ sc.Absolute = Zero /\ sc.Releative = Zero
     /\ sc.MinRange = UnsetInterval /\ sc.MaxRange = UnsetInterval)
        => Near(sc.Limit.Min, sc.Data.Min, sc.Data) /\ Near(sc.Limit.Max, sc.Data.Max, sc.Data)

Pinned(r) == FEq(r.Min, r.Max)

\* C7: after Autoscale on a scale with data, an edge pinned by FixMin (FixMax)
\* equals the pinned value, and the other edge is the clipped expansion of the
\* data edge.
InvC7 ==
    (scLast = "Autoscale" /\ HasData(sc)) =>
        /\ Pinned(sc.MinRange) =>
               /\ sc.Limit.Min = sc.MinRange.Min
               /\ ~Pinned(sc.MaxRange) =>
                      sc.Limit.Max = ClipEdge(applyExpansion(sc, FALSE), sc.MaxRange)
        /\ Pinned(sc.MaxRange) =>
               /\ sc.Limit.Max = sc.MaxRange.Min
               /\ ~Pinned(sc.MinRange) =>
                      sc.Limit.Min = ClipEdge(applyExpansion(sc, TRUE), sc.MinRange)

WitC7 ==
    /\ scLast = "Autoscale"
    /\ sc.MinRange = Interval(R(5), R(5))
    /\ ~Pinned(sc.MaxRange)
    /\ sc.Absolute = One
    /\ HasData(sc) /\ FLt(sc.Data.Min, R(5))
    /\ sc.Limit.Min = R(5)
    /\ IsNum(sc.Limit.Max) /\ FGt(sc.Limit.Max, sc.Data.Max)

InRangeOrFree(x, r) ==
    /\ IsNaN(r.Min) \/ FGe(x, r.Min)
    /\ IsNaN(r.Max) \/ FLe(x, r.Max)

\* C8: after Autoscale on a scale with data, a non-degenerate MinRange [u,v]
\* holds Limit.Min (a NaN bound is no bound), and MaxRange holds Limit.Max.
InvC8 ==
    (scLast = "Autoscale" /\ HasData(sc)) =>
        /\ ~Pinned(sc.MinRange) => InRangeOrFree(sc.Limit.Min, sc.MinRange)
        /\ ~Pinned(sc.MaxRange) => InRangeOrFree(sc.Limit.Max, sc.MaxRange)

\* ------------------------------------------------------------------------
\* Properties of Interval

\* C9: an interval that starts unset and is fed by Update is unset as long as
\* only NaN was passed, and else [min, max] of the values passed that are not
\* NaN.
InvC9 ==
    LET nums == {x \in fed : ~IsNaN(x)}
    IN  iv = IF nums = {} THEN UnsetInterval
             ELSE Interval(CHOOSE m \in nums : \A n \in nums : FLe(m, n),
                           CHOOSE m \in nums : \A n \in nums : FGe(m, n))

WitC9 ==
    /\ NaN \in fed
    /\ fed \cap {R(-3), Zero, R(4), R(7)} = {R(4), R(7)}
    /\ iv = Interval(R(4), R(7))

BoundEqual(a, b) == (IsNaN(a) /\ IsNaN(b)) \/ FEq(a, b)
SameInterval(i, j) == BoundEqual(i.Min, j.Min) /\ BoundEqual(i.Max, j.Max)

\* C10: i.Equal(j) holds exactly when Min and Max each are both NaN or the
\* same number, and gives the same answer in both argument orders.
InvC10 ==
    /\ eq.ij = (BoundEqual(eq.i.Min, eq.j.Min) /\ BoundEqual(eq.i.Max, eq.j.Max))
    /\ eq.ij = eq.ji

\* A finite interval with Min < Max.
Proper(i) == IsNum(i.Min) /\ IsNum(i.Max) /\ FLt(i.Min, i.Max)

\* C11: Degenerate leaves a finite interval with Min < Max for every input,
\* and it reports "modified" exactly when the interval changed (so a proper
\* interval is left alone with result false).
InvC11 ==
    res.op = "Degenerate" =>
        /\ Proper(res.out)
        /\ res.modified = ~SameInterval(res.out, res.in)

\* ------------------------------------------------------------------------
\* Properties of the transformations

\* x lies strictly inside i.
StrictlyInside(x, i) == FLt(i.Min, x) /\ FLt(x, i.Max)
Inside(x, i) == FLe(i.Min, x) /\ FLe(x, i.Max)

\* C12: for x strictly inside from, Inverse(from, to, Trans(from, to, x)) is
\* x, up to the rounding of the numbers.
InvC12 ==
    (res.op = "Trans" /\ StrictlyInside(res.x, res.from)) => Near(res.back, res.x, res.from)

\* The from and to intervals both run upwards, and the to bounds of a
\* square-root transformation are not negative.
TransDomain ==
    /\ FLt(res.from.Min, res.from.Max)
    /\ FLt(res.to.Min, res.to.Max)
    /\ res.t \in {"SqrtTrans", "SqrtTransFix0"} => FGe(res.to.Min, Zero)

\* C13: every transformation maps from.Min to to.Min and from.Max to to.Max,
\* and x <= x2 inside from gives Trans(x) <= Trans(x2).
InvC13 ==
    (res.op = "Trans" /\ TransDomain) =>
        /\ FEq(res.x, res.from.Min) => FEq(res.y, res.to.Min)
        /\ FEq(res.x, res.from.Max) => FEq(res.y, res.to.Max)
        /\ (Inside(res.x, res.from) /\ Inside(res.x2, res.from)) => FLe(res.y, res.y2)

\* to.Max * to.Max, the area SqrtTransFix0 maps from.Max to
Fix0Area(to) == FMul(to.Max, to.Max)
\* from.Max can be divided by and the area is finite: 0 is mapped to 0.
MapsZero(from, to) ==
    ~IsNaN(from.Max) /\ ~IsZero(from.Max) /\ IsNum(Fix0Area(to))
\* 2^-1022, the smallest normal float64
MinNormal == [k |-> "num", s |-> 0, m |-> <<0, 16777216>>, e |-> -1074]
Normal(v) == IsNum(v) /\ FGe(FAbs(v), MinNormal)
\* from.Max is a number other than 0, and neither the area nor its product
\* with from.Max overflows or underflows (or to.Max is 0).
MapsMax(from, to) ==
    /\ IsNum(from.Max) /\ ~IsZero(from.Max)
    /\ \/ IsZero(to.Max)
       \/ Normal(Fix0Area(to)) /\ Normal(FMul(Fix0Area(to), from.Max))
\* Other values of from.Min and to.Min
OtherMins == {Twentieth, NaN, NegInf} \cup Rs({-10, 0, 7})

\* C14: the result of SqrtTransFix0.Trans does not depend on from.Min and
\* to.Min; 0 (and -0) is mapped to 0 when from.Max is neither 0 nor NaN and
\* to.Max * to.Max is finite, and to NaN otherwise; from.Max is mapped to
\* |to.Max| within 2^-51 of it (to.Max only when to.Max >= 0, -to.Max when it
\* is negative) where from.Max is a number other than 0 and to.Max * to.Max
\* and its product with from.Max neither overflow nor underflow.
InvC14 ==
    (res.op = "Trans" /\ res.t = "SqrtTransFix0") =>
        /\ IsZero(res.x) =>
               IF MapsZero(res.from, res.to) THEN res.y = Zero ELSE IsNaN(res.y)
        /\ \A m \in OtherMins, n \in OtherMins :
               SqrtTransFix0Trans(Interval(m, res.from.Max), Interval(n, res.to.Max), res.x)
                   = res.y
        /\ (res.x = res.from.Max /\ MapsMax(res.from, res.to)) =>
               /\ IsNum(res.y) /\ res.y.s = 0
               /\ FLe(FAbs(FSub(res.y, FAbs(res.to.Max))),
                      FMul(Ldexp(One, -51), FAbs(res.to.Max)))

WitC14 ==
    /\ res.op = "Trans" /\ res.t = "SqrtTransFix0"
    /\ res.from = Interval(Ten, R(20)) /\ res.to = Interval(R(3), R(4))
    /\ res.x = Zero /\ res.y = Zero
    /\ res.x2 = R(20) /\ res.y2 = R(4)

\* C14 as stated: for every from and to with from.Max other than 0, 0 is
\* mapped to 0, from.Min and to.Min do not matter, and from.Max is mapped to
\* to.Max.
OrigC14 ==
    (res.op = "Trans" /\ res.t = "SqrtTransFix0" /\ ~IsZero(res.from.Max)) =>
        /\ IsZero(res.x) => res.y = Zero
        /\ \A m \in OtherMins, n \in OtherMins :
               SqrtTransFix0Trans(Interval(m, res.from.Max), Interval(n, res.to.Max), res.x)
                   = res.y
        /\ res.x = res.from.Max => res.y = res.to.Max

\* Inside from, a larger x never gives a smaller Trans(x), where both are numbers.
MonotonicTrans ==
    (res.op = "Trans" /\ TransDomain /\ Inside(res.x, res.from) /\ Inside(res.x2, res.from)
        /\ IsNum(res.y) /\ IsNum(res.y2)) => FLe(res.y, res.y2)

\* ------------------------------------------------------------------------
\* Properties of Scale.Map and Scale.InRange

LimitUnusable(s) == IsNaN(s.Limit.Min) \/ IsNaN(s.Limit.Max) \/ FEq(s.Limit.Min, s.Limit.Max)

\* C15: Map returns NaN when the limit has a NaN edge or Min == Max, and else
\* it maps Limit.Min to 0 and Limit.Max to 1.
InvC15 ==
    res.op = "Map" =>
        /\ LimitUnusable(sc) => IsNaN(res.y)
        /\ (~LimitUnusable(sc) /\ FEq(res.x, sc.Limit.Min)) => FEq(res.y, Zero)
        /\ (~LimitUnusable(sc) /\ FEq(res.x, sc.Limit.Max)) => FEq(res.y, One)

\* C16: InRange(x) holds exactly when x lies between the smaller and the
\* larger edge of the limit.
InvC16 ==
    res.op = "InRange" =>
        (res.ok <=> \E lo \in {sc.Limit.Min, sc.Limit.Max}, hi \in {sc.Limit.Min, sc.Limit.Max} :
                        FLe(lo, hi) /\ FLe(lo, res.x) /\ FLe(res.x, hi))

\* ------------------------------------------------------------------------
\* Properties of colors and guides

\* The non-positional scales
GuideScales == FillScale .. numScales - 1
OutOfRange(s, x) == IsNaN(x) \/ FLt(x, s.Min) \/ FGt(x, s.Max)

\* C17: MapColor of a value outside [Min, Max] of the scale, or of NaN, is the
\* one fallback color (the transparent color) and no color of the color map.
InvC17 ==
    (res.op = "MapColor" /\ OutOfRange(scales[Scales[res.scale]], res.x))
        => res.col.color = "transparent"

\* How often scale j occurs in the combinations.
RECURSIVE Occurrences(_, _)
Occurrences(combinations, j) ==
    IF combinations = <<>> THEN 0
    ELSE Count(Head(combinations), j) + Occurrences(Tail(combinations), j)

\* The combinations are a partition of the non-positional scales with data:
\* each of them is in exactly one group, no other scale is in any group, no
\* group is empty, and any two scales of a group can be combined.
PartitionOfGuides(combinations) ==
    /\ \A j \in 0 .. numScales - 1 :
           Occurrences(combinations, j) =
               IF j \in GuideScales /\ HasData(scales[Scales[j]]) THEN 1 ELSE 0
    /\ \A n \in 1 .. Len(combinations) :
           LET g == combinations[n]
           IN  /\ g # <<>>
               /\ \A a \in 1 .. Len(g), b \in 1 .. Len(g) :
                      a # b => canCombineScales(g[a], g[b]) = Returns(TRUE)

SameType(s1, s2) == s1.ScaleType = s2.ScaleType
SameRange(s1, s2) == FEq(s1.Min, s2.Min) /\ FEq(s1.Max, s2.Max)
SameTitle(s1, s2) == s1.Title = s2.Title \/ s1.Title = "" \/ s2.Title = ""
SameTicks(s1, s2) ==
    (s1.Ticker # NoTicker /\ s2.Ticker # NoTicker) =>
        LET t1 == Ticks(s1.Ticker, s1.Min, s1.Max)
            t2 == Ticks(s2.Ticker, s2.Min, s2.Max)
        IN  /\ t1.end = "return" /\ t2.end = "return"
            /\ Len(t1.val) = Len(t2.val)
            /\ \A n \in 1 .. Len(t1.val) :
                   /\ FEq(t1.val[n].Value, t2.val[n].Value)
                   /\ t1.val[n].Label = t2.val[n].Label
SameColorMap(j, k, s1, s2) ==
    {j, k} = {FillScale, ColorScale} =>
        (s1.ColorMap = s2.ColorMap \/ s1.ColorMap = "nil" \/ s2.ColorMap = "nil")
FiveRules(j, k) ==
    LET s1 == scales[Scales[j]]
        s2 == scales[Scales[k]]
    IN  /\ SameType(s1, s2)
        /\ SameRange(s1, s2)
        /\ SameTitle(s1, s2)
        /\ SameTicks(s1, s2)
        /\ SameColorMap(j, k, s1, s2)

\* Both scales carry a plot.ConstantTicks, and the rules before the tickers
\* (type, range and title) hold: canCombineScales gets to compare the two
\* tickers.
ComparesSlices(j, k) ==
    LET s1 == scales[Scales[j]]
        s2 == scales[Scales[k]]
    IN  /\ SameType(s1, s2) /\ SameRange(s1, s2) /\ SameTitle(s1, s2)
        /\ s1.Ticker.type = "ConstantTicks" /\ s2.Ticker.type = "ConstantTicks"

InvC20 ==
    res.op = "drawGuides" =>
        (res.continuous <=>
            \A n \in 1 .. Len(res.group) :
                /\ res.group[n] \in {FillScale, ColorScale}
                /\ scales[Scales[res.group[n]]].ScaleType # Discrete)

\* The group of Fill and Color, of scale type Time, is drawn continuous.
WitC20 ==
    /\ res.op = "drawGuides"
    /\ res.group = <<FillScale, ColorScale>>
    /\ scales[Scales[FillScale]].ScaleType = Time
    /\ res.continuous

\* ------------------------------------------------------------------------
\* Properties of free axes

FreeX == Cols >= 2 /\ \A c \in 1 .. Cols, d \in 1 .. Cols : c # d => XScales[c] # XScales[d]
FreeY == Rows >= 2 /\ \A r \in 1 .. Rows, q \in 1 .. Rows : r # q => YScales[r] # YScales[q]
SharedY == \A r \in 1 .. Rows : YScales[r] = YScales[1]

\* The X extents the AllDataRanger geoms of column c report, and the Y extents
\* of those of row r.
ColExtents(c) ==
    UNION { { Panels[<<r, c>>][k].dr[XScale] :
                k \in {n \in 1 .. Len(Panels[<<r, c>>]) : Panels[<<r, c>>][n].kind = "adr"} } :
            r \in 1 .. Rows }
RowExtents(r) ==
    UNION { { Panels[<<r, c>>][k].dr[YScale] :
                k \in {n \in 1 .. Len(Panels[<<r, c>>]) : Panels[<<r, c>>][n].kind = "adr"} } :
            c \in 1 .. Cols }

\* The scale s holds the extents E and nothing else (on the first render), and
\* its limit is its own Data expanded once.
OwnsOnly(s, E) ==
    /\ \A e \in E : Covers(s.Data, e)
    /\ renders = 1 => s.Data = Hull(E)
    /\ (HasData(s) /\ Unpinned(s)) =>
           Interval(s.Min, s.Max) = ExpandedOnce(s.Data, s.ScaleType = Discrete)

\* C21: the columns of a plot have either one X scale each or all the same
\* one, and likewise the rows for Y; after Range the Data and the limit of
\* the X scale of a column with its own scale are those of the geoms of that
\* column alone, and those of the Y scale of a row those of that row alone.
InvC21 ==
    /\ FreeX \/ SharedX
    /\ FreeY \/ SharedY
    /\ (pc = "done" /\ FreeX) => \A c \in 1 .. Cols : OwnsOnly(scales[XScales[c]], ColExtents(c))
    /\ (pc = "done" /\ FreeY) => \A r \in 1 .. Rows : OwnsOnly(scales[YScales[r]], RowExtents(r))

\* Two columns with their own X scales and different data after Range.
WitC21 ==
    /\ pc = "done"
    /\ FreeX
    /\ renders = 1
    /\ \E r1 \in 1 .. Rows, r2 \in 1 .. Rows :
           /\ Len(Panels[<<r1, 1>>]) = 1
           /\ Len(Panels[<<r2, 2>>]) = 1
           /\ Panels[<<r1, 1>>][1].dr[XScale] = Interval(Zero, Ten)
           /\ Panels[<<r2, 2>>][1].dr[XScale] = Interval(R(20), R(30))
    /\ scales[XScales[1]].Data = Interval(Zero, Ten)
    /\ scales[XScales[2]].Data = Interval(R(20), R(30))
    /\ scales[XScales[1]].Max = N(210)

\* C22: in every state of a plot the Symbol scale and the Style scale have
\* ScaleType Discrete.
InvC22 ==
    /\ scales[Scales[SymbolScale]].ScaleType = Discrete
    /\ scales[Scales[StyleScale]].ScaleType = Discrete

\* ------------------------------------------------------------------------
\* Properties of scales without data

\* C23: a scale without data stays unset. Autoscale on a Scale without data
\* leaves its Limit as it was, unset, also when FixMin or FixMax pinned an
\* edge; and after Range every non-positional scale without data has NaN
\* limits.
InvC23 ==
    /\ ~HasData(sc) => sc.Limit = UnsetInterval
    /\ pc = "done" =>
           \A j \in GuideScales :
               ~HasData(scales[Scales[j]]) =>
                   IsNaN(scales[Scales[j]].Min) /\ IsNaN(scales[Scales[j]].Max)

\* Autoscale has run on a pinned Scale without data, and Range on a plot with
\* data for some non-positional scales only.
WitC23 ==
    /\ scLast = "Autoscale"
    /\ ~HasData(sc)
    /\ sc.MinRange = Interval(R(5), R(5))
    /\ sc.MaxRange = Interval(R(9), R(9))
    /\ pc = "done"
    /\ HasData(scales[Scales[FillScale]])
    /\ ~HasData(scales[Scales[SizeScale]])
    /\ IsNaN(scales[Scales[SizeScale]].Min)
    /\ ~IsNaN(scales[XScales[1]].Min)

\* C24: Autoscale called a second time right after Autoscale gives the Limit
\* the first call gave.
InvC24 == res.op = "Autoscale" => res.twice = res.once

\* Autoscale has run twice on a Scale with data, a transformation and an
\* expansion that make the Limit differ from Data.
WitC24 ==
    /\ res.op = "Autoscale"
    /\ scLast = "Autoscale"
    /\ sc.Trans = "LinearTrans"
    /\ sc.Data = Interval(R(3), R(7))
    /\ sc.Releative = One
    /\ sc.Absolute = Zero
    /\ res.twice = Interval(NegOne, R(11))

\* The old autoscale applied again to a scale changes nothing.
AutoscaleAgainOld ==
    pc = "autoscaled" => \A id \in Reachable : autoscale(scales[id]) = scales[id]

\* ------------------------------------------------------------------------
\* Properties of Scale.fillRange

\* C25: after Autoscale followed by fillRange a Range edge the user set is
\* the one he set, and a Range edge the user never set equals the current
\* Limit edge, also on a later run with more data.
InvC25 ==
    scLast = "fillRange" =>
        /\ sc.Range.Min = IF IsNaN(res.user.Min) THEN sc.Limit.Min ELSE res.user.Min
        /\ sc.Range.Max = IF IsNaN(res.user.Max) THEN sc.Limit.Max ELSE res.user.Max

\* fillRange keeps the Range edges the user set, and fills the others from
\* Limit while they are NaN.
KeepsUserRange ==
    /\ ~IsNaN(res.user.Min) => sc.Range.Min = res.user.Min
    /\ ~IsNaN(res.user.Max) => sc.Range.Max = res.user.Max

\* ------------------------------------------------------------------------
\* Properties of Plot.colorMapFor

\* The positions of the Fill and Color scales with a ColorMap in a group
WithColorMap(group) ==
    {n \in 1 .. Len(group) :
        group[n] \in {FillScale, ColorScale} /\ scales[Scales[group[n]]].ColorMap # "nil"}

\* C26: colorMapFor returns the ColorMap of the first Fill or Color scale of
\* the group that has one, and a new default rainbow only when none has.
InvC26 ==
    res.op = "colorMapFor" =>
        res.cm = IF WithColorMap(res.group) = {} THEN "newRainbow"
                 ELSE LET first == CHOOSE n \in WithColorMap(res.group) :
                                       \A m \in WithColorMap(res.group) : n <= m
                      IN  scales[Scales[res.group[first]]].ColorMap

\* ------------------------------------------------------------------------
\* Properties of the Data interval of a Scale

\* C27: the Data of a Scale fed by UpdateData and Update is unset on both
\* edges or has Min <= Max; a call leaves Min no larger and Max no smaller
\* than before, and the same call made again changes nothing.
InvC27 ==
    /\ \/ IsNaN(sc.Data.Min) /\ IsNaN(sc.Data.Max)
       \/ ~IsNaN(sc.Data.Min) /\ ~IsNaN(sc.Data.Max) /\ FLe(sc.Data.Min, sc.Data.Max)
    /\ HasData(sc) <=> ~IsNaN(sc.Data.Min)
    /\ res.op \in {"UpdateData", "Update"} =>
           /\ ~IsNaN(res.before.Min) =>
                  FLe(sc.Data.Min, res.before.Min) /\ FGe(sc.Data.Max, res.before.Max)
           /\ res.again = sc.Data

\* UpdateData with an interval of which one edge is NaN has extended Data.
WitC27 ==
    /\ res.op = "UpdateData"
    /\ res.before = Interval(Zero, R(4))
    /\ res.i = Interval(R(7), NaN)
    /\ sc.Data = Interval(Zero, R(7))

\* ------------------------------------------------------------------------
\* Properties of BarGroups

\* The x values recorded when the last query was made, and the summary the
\* records call for.
QueriedXs == {x \in BarXs : res.Group[x] # <<>>}
Ascending(xs) == \A n \in 1 .. Len(xs) - 1 : FLt(xs[n], xs[n + 1])
SmallestGap(S) ==
    CHOOSE d \in {FSub(p[2], p[1]) : p \in S \X S} :
        /\ FGt(d, Zero)
        /\ \A x \in S, y \in S : FGt(FSub(y, x), Zero) => FLe(d, FSub(y, x))
LargestGroup == CHOOSE n \in 0 .. MaxPoints + 1 :
                    /\ \A x \in BarXs : Len(res.Group[x]) <= n
                    /\ n = 0 \/ \E x \in BarXs : Len(res.Group[x]) = n
Summary ==
    /\ res.op = "Xs" =>
           /\ {res.out[n] : n \in 1 .. Len(res.out)} = QueriedXs
           /\ Len(res.out) = Cardinality(QueriedXs)
           /\ Ascending(res.out)
    /\ res.op = "MaxGroupSize" => res.out = LargestGroup
    /\ (res.op = "MinDelta" /\ Cardinality(QueriedXs) >= 2) => res.out = SmallestGap(QueriedXs)

\* C28: every query Xs, MinDelta or MaxGroupSize, made after any records and
\* earlier queries, returns, and returns the summary of all records made so
\* far: the distinct x values in ascending order, the largest number of
\* points at one x, the smallest gap between neighbouring x values.
InvC28 ==
    res.op \in {"Xs", "MinDelta", "MaxGroupSize"} => (~res.panic /\ Summary)

\* C29: MinDelta returns 1 with exactly one distinct x recorded and 0 with
\* none, and Xs, which Bar.AllDataRanges needs, returns as well.
InvC29 ==
    (res.op \in {"Xs", "MinDelta"} /\ Cardinality(QueriedXs) < 2) =>
        /\ ~res.panic
        /\ res.op = "MinDelta" => res.out = R(Cardinality(QueriedXs))

\* With two or more distinct x values recorded every query returns the
\* summary of all records, those made after an earlier query included.
CoherentFromTwo ==
    (res.op \in {"Xs", "MinDelta", "MaxGroupSize"} /\ Cardinality(QueriedXs) >= 2) =>
        (~res.panic /\ Summary)

\* A query has answered from records of which some were made after an
\* earlier query.
QueriedTwice ==
    /\ res.op = "MinDelta"
    /\ ~res.panic
    /\ Cardinality(QueriedXs) = 3
    /\ res.out = One
    /\ bg.points = 3

\* ------------------------------------------------------------------------
\* Properties of Inverse with the intervals swapped

\* The larger of two numbers
FMax(a, b) == IF FGe(a, b) THEN a ELSE b
\* v is 0 or of a magnitude from 2^-100 to 2^100.
Moderate(v) ==
    IsNum(v) /\ (IsZero(v) \/ (FLe(Ldexp(One, -100), FAbs(v)) /\ FLe(FAbs(v), Ldexp(One, 100))))
\* The interval Inverse maps from and Trans into: to, for SqrtTrans the
\* areas of to, for SqrtTransFix0 the areas from 0.
Target(t, to) ==
    IF t = "SqrtTrans" THEN Interval(FMul(to.Min, to.Min), FMul(to.Max, to.Max))
    ELSE IF t = "SqrtTransFix0" THEN Interval(Zero, FMul(to.Max, to.Max))
    ELSE to
\* The largest magnitude of the interval i over its width
Condition(i) == FDiv(FMax(FAbs(i.Min), FAbs(i.Max)), FAbs(FSub(i.Max, i.Min)))
\* The decades Log10Trans spreads from over
Decades(t, from) ==
    IF t = "Log10Trans" THEN FAbs(FLog10(FDiv(from.Max, from.Min))) ELSE Zero
\* The largest magnitude of from as the transformation t reads it
Magnitude(t, from) ==
    IF t = "SqrtTransFix0" THEN FAbs(from.Max) ELSE FMax(FAbs(from.Min), FAbs(from.Max))
\* What a round trip through Trans and Inverse may be off by
RoundTripBound(t, from, to) ==
    FMul(Ldexp(One, -48),
         FMul(Magnitude(t, from),
              FMul(FAdd(One, Condition(Target(t, to))), FAdd(One, Decades(t, from)))))
\* The round trips the statement is about: from and to are intervals of
\* moderate numbers, from.Min < from.Max, what Trans maps into is not
\* degenerate, x lies in from and Trans(from, to, x) is a number.
RoundTripDomain ==
    /\ res.t # "IdentityTrans"
    /\ \A v \in {res.from.Min, res.from.Max, res.to.Min, res.to.Max, res.x} : Moderate(v)
    /\ FLt(res.from.Min, res.from.Max)
    /\ ~FEq(Target(res.t, res.to).Min, Target(res.t, res.to).Max)
    /\ Inside(res.x, res.from)
    /\ IsNum(res.y)
\* applyExpansion without expansion, on a scale of LinearTrans with the
\* data interval
Unexpanded(data, min) ==
    applyExpansion([NewScaleT EXCEPT !.Trans = "LinearTrans", !.Data = data], min)

\* C30: Inverse(to, from, Trans(from, to, x)) is x up to rounding, within
\* RoundTripBound, for LinearTrans, SqrtTrans, SqrtTransFix0 and Log10Trans
\* wherever Trans is a number; and for LinearTrans the expansion by 0 of
\* applyExpansion, which calls Inverse({0,1}, Data, t) with t = 0 and t = 1,
\* gives Data.Min, and Data.Max within 2^-51 of the magnitudes of the data.
InvC30 ==
    (res.op = "Trans" /\ RoundTripDomain) =>
        /\ IsNum(res.inv)
        /\ FLe(FAbs(FSub(res.inv, res.x)), RoundTripBound(res.t, res.from, res.to))
        /\ res.t = "LinearTrans" =>
               /\ FEq(Unexpanded(res.from, TRUE), res.from.Min)
               /\ FLe(FAbs(FSub(Unexpanded(res.from, FALSE), res.from.Max)),
                      FMul(Ldexp(One, -51), FAdd(FAbs(res.from.Min), FAbs(res.from.Max))))

\* C30 as stated: Inverse(to, from, Trans(from, to, x)) == x, and t = 0 and
\* t = 1 give Data.Min and Data.Max.
OrigC30 ==
    (res.op = "Trans" /\ RoundTripDomain) =>
        /\ FEq(res.inv, res.x)
        /\ res.t = "LinearTrans" =>
               /\ FEq(Unexpanded(res.from, TRUE), res.from.Min)
               /\ FEq(Unexpanded(res.from, FALSE), res.from.Max)

\* LinearTrans from [10,20] to [100,200] maps 12 to 120 and Inverse with
\* the intervals swapped maps 120 back to 12.
WitC30 ==
    /\ res.op = "Trans"
    /\ res.t = "LinearTrans"
    /\ res.from = Interval(Ten, R(20))
    /\ res.to = Interval(R(100), R(200))
    /\ res.x = R(12)
    /\ res.y = R(120)
    /\ res.inv = R(12)

====
